---- MODULE Spec2Model ----
(***************************************************************************)
(* Model of the spatial overlay / assignment engine and of the two         *)
(* assessment pipelines of the NRF impact-assessment worker.               *)
(*                                                                         *)
(* Geometry is rectilinear: a geometry is a finite set of unit cells       *)
(* <<x, y>> of the integer lattice (cell <<x, y>> is the closed square     *)
(* [x, x+1] x [y, y+1]).  Area is the number of cells, the empty set is an *)
(* empty geometry, and two geometries intersect as closed sets when two of *)
(* their cells share at least a corner.  Floating-point rounding of the    *)
(* geometry engine is not modelled: arithmetic is exact.                   *)
(***************************************************************************)
EXTENDS Integers, Sequences, FiniteSets, TLC

VARIABLES
    input_gdf,      \* input features: sequence of [id, geometry]
    overlay_gdf,    \* overlay features: sequence of [attr, geometry]
    default_value,  \* default_value argument (NULL = None)
    call,           \* the last call of a spatial function and what it returned
    spatial_layer,      \* nrf_reference.spatial_layer: set of [layer_type, version, attr, geometry]
    coefficient_layer,  \* nrf_reference.coefficient_layer: set of [version, crome_id, geometry]
    temp,           \* per connection: the temporary tables of its open transaction
    sess,           \* per repository call: its session, connection and progress
    run             \* the assessment instance the worker is running

\* the inputs and the result of the local spatial functions
spatialVars == <<input_gdf, overlay_gdf, default_value, call>>
\* the reference tables of the store
layerVars == <<spatial_layer, coefficient_layer>>
\* the sessions of the repository and their temporary tables
sessionVars == <<temp, sess>>

vars == <<input_gdf, overlay_gdf, default_value, call,
          spatial_layer, coefficient_layer, temp, sess, run>>

\* None / NaN / SQL NULL
NULL == "NULL"

----------------------------------------------------------------------------
(* Bounds of the model *)

\* small tables have 1..MaxSmallRows rows
MaxSmallRows == 2
\* large tables have SEQUENTIAL_THRESHOLD .. SEQUENTIAL_THRESHOLD + MaxExtraRows rows
MaxExtraRows == 1
\* overlay tables have 1..MaxOverlay features
MaxOverlay == 2
\* explicit max_workers arguments are 1..MaxWorkersArg
MaxWorkersArg == 3
\* repository calls in progress at once, each on a connection of its own
MaxCalls == 2
\* reference layers are stored in versions 1..MaxVersion
MaxVersion == 2
\* the wastewater stage gets tables of 1..MaxRateRows rows
MaxRateRows == 3

----------------------------------------------------------------------------
(* Program constants *)

\* `len(input_gdf) < 100`: below it majority_overlap and the difference run sequentially
SEQUENTIAL_THRESHOLD == 100
\* `os.cpu_count() or 4`
DEFAULT_CPU_COUNT == 4
\* `max_workers: int | None = None`: the integer standing for None
NO_MAX_WORKERS == 0
\* os.cpu_count() returning None
NO_CPU_COUNT == 0
\* AssessmentConfig.fallback_wwtw_id
FALLBACK_WWTW_ID == 141

----------------------------------------------------------------------------
(* Arithmetic and sequence helpers *)

Abs(n) == IF n < 0 THEN -n ELSE n
MaxOf(S) == CHOOSE m \in S : \A n \in S : n <= m
MinOf(S) == CHOOSE m \in S : \A n \in S : m <= n

\* sum of f[e] over e in S
RECURSIVE SumOver(_, _)
SumOver(S, f) ==
    IF S = {} THEN 0
    ELSE LET e == CHOOSE e \in S : TRUE IN f[e] + SumOver(S \ {e}, f)

\* f[lo] + ... + f[hi], by halving
RECURSIVE SumRange(_, _, _)
SumRange(f, lo, hi) ==
    IF lo > hi THEN 0
    ELSE IF lo = hi THEN f[lo]
    ELSE LET mid == (lo + hi) \div 2
         IN  SumRange(f, lo, mid) + SumRange(f, mid + 1, hi)

\* ss[lo] \o ... \o ss[hi], by halving
RECURSIVE ConcatRange(_, _, _)
ConcatRange(ss, lo, hi) ==
    IF lo > hi THEN <<>>
    ELSE IF lo = hi THEN ss[lo]
    ELSE LET mid == (lo + hi) \div 2
         IN  ConcatRange(ss, lo, mid) \o ConcatRange(ss, mid + 1, hi)

\* pd.concat(frames, ignore_index=True)
Concat(ss) == ConcatRange(ss, 1, Len(ss))

----------------------------------------------------------------------------
(* Geometry provider (shapely / GEOS / PostGIS) *)

\* shapely Polygon of the box [x0, x1] x [y0, y1]
Rect(x0, y0, x1, y1) == {<<x, y>> : x \in x0..(x1 - 1), y \in y0..(y1 - 1)}

\* geometry.area / ST_Area
Area(g) == Cardinality(g)

\* the polygonal part of a.intersection(b)
Intersection(a, b) == a \cap b

\* the "intersects" predicate of the spatial index and ST_Intersects:
\* closed sets sharing at least one point (touching counts)
Intersects(a, b) ==
    \E p \in a, q \in b : Abs(p[1] - q[1]) <= 1 /\ Abs(p[2] - q[2]) <= 1

\* NaN as a bounds or centroid value
NaN == <<>>

\* gdf.total_bounds = <<minx, miny, maxx, maxy>>, skipping empty geometries;
\* NaN when every geometry is empty
TotalBounds(gdf) ==
    LET cells == UNION {gdf[i].geometry : i \in 1..Len(gdf)}
    IN  IF cells = {} THEN NaN
        ELSE <<MinOf({c[1] : c \in cells}), MinOf({c[2] : c \in cells}),
               MaxOf({c[1] : c \in cells}) + 1, MaxOf({c[2] : c \in cells}) + 1>>

\* geometry.centroid as <<sum of 2*cx over cells, sum of 2*cy over cells, cells>>:
\* the centroid is (c[1] / (2*c[3]), c[2] / (2*c[3])); NaN for an empty geometry
Centroid(g) ==
    IF g = {} THEN NaN
    ELSE LET sx == [c \in g |-> 2 * c[1] + 1]
             sy == [c \in g |-> 2 * c[2] + 1]
         IN  <<SumOver(g, sx), SumOver(g, sy), Cardinality(g)>>

\* geometry.buffer(d) for a whole number of cells d >= 0: every cell within
\* distance d (square corners: the rounding of buffered corners is not modelled)
Buffer(g, d) == {<<c[1] + i, c[2] + j>> : c \in g, i \in (-d)..d, j \in (-d)..d}

\* unary_union(geometries)
UnaryUnion(gs) == UNION gs

\* a coordinate rounded to the nearest multiple of grid (halves upwards)
SnapCoord(v, grid) == ((2 * v + grid) \div (2 * grid)) * grid

\* shapely.set_precision(geom, grid_size): every vertex coordinate moves to
\* the grid, so cell <<x, y>> becomes the box between the snapped corners
\* (nothing when two corners collapse)
Snap(g, grid) ==
    UNION {Rect(SnapCoord(c[1], grid), SnapCoord(c[2], grid),
                SnapCoord(c[1] + 1, grid), SnapCoord(c[2] + 1, grid)) : c \in g}

----------------------------------------------------------------------------
(* pandas helpers *)

\* left.merge(right, on=id, how="left") restricted to the columns id and value
\* every left row is paired with each right row of the same id, or with NaN
LeftMerge(left, right) ==
    LET rowsOf(l) ==
            LET matches == SelectSeq(right, LAMBDA r : r.id = l.id)
            IN  IF matches = <<>>
                THEN <<[id |-> l.id, value |-> NULL]>>
                ELSE [k \in 1..Len(matches) |-> [id |-> l.id, value |-> matches[k].value]]
    IN  Concat([i \in 1..Len(left) |-> rowsOf(left[i])])

\* series.fillna(v)
FillNa(rows, v) ==
    [k \in 1..Len(rows) |->
        [rows[k] EXCEPT !.value = IF rows[k].value = NULL THEN v ELSE rows[k].value]]

\* the ascending sequence of the integers of S
SortedSeq(S) ==
    [k \in 1..Cardinality(S) |->
        CHOOSE x \in S : Cardinality({y \in S : y < x}) = k - 1]

----------------------------------------------------------------------------
(* worker/spatial/assignments.py *)

\* gpd.overlay(input_gdf, overlay_gdf_clean, how="intersection") with
\* overlap_area = geometry.area, for one input row: one row per overlay
\* feature the spatial index reports as intersecting, kept only when the
\* intersection is polygonal (keep_geom_type drops the points and lines of
\* features that merely touch), in overlay order
RowIntersections(row, overlay) ==
    LET pairs == [j \in 1..Len(overlay) |->
                    [id |-> row.id,
                     value |-> overlay[j].attr,
                     hit |-> Intersects(row.geometry, overlay[j].geometry),
                     overlap_area |-> Area(Intersection(row.geometry, overlay[j].geometry))]]
    IN  SelectSeq(pairs, LAMBDA r : r.hit /\ r.overlap_area > 0)

\* the whole intersection table, ordered by input row, then overlay row
Intersections(input, overlay) ==
    Concat([i \in 1..Len(input) |-> RowIntersections(input[i], overlay)])

\* the position in grp of the row a mutated idxmax would take: the smallest overlap
IdxMin(grp) ==
    LET m == MinOf({grp[k].overlap_area : k \in 1..Len(grp)})
    IN  MinOf({k \in 1..Len(grp) : grp[k].overlap_area = m})

\* groupby(...)["overlap_area"].idxmax() within one group: the first row
\* holding the largest overlap_area
IdxMax(grp) ==
    LET m == MaxOf({grp[k].overlap_area : k \in 1..Len(grp)})
    IN  MinOf({k \in 1..Len(grp) : grp[k].overlap_area = m})

\* intersections.loc[intersections.groupby(id)["overlap_area"].idxmax(), [id, attr]]
Majority(intersections) ==
    LET ids == SortedSeq({intersections[k].id : k \in 1..Len(intersections)})
        best(i) == LET grp == SelectSeq(intersections, LAMBDA r : r.id = i)
                   IN  [id |-> i, value |-> grp[IdxMax(grp)].value]
    IN  [k \in 1..Len(ids) |-> best(ids[k])]

\* _majority_overlap_sequential restricted to the columns id and output_field
_majority_overlap_sequential(input, overlay, default) ==
    LET intersections == Intersections(input, overlay)
        majority == Majority(intersections)
        all_inputs == [k \in 1..Len(input) |-> [id |-> input[k].id]]
        merged == LeftMerge(all_inputs, majority)
        assignments == IF default # NULL THEN FillNa(merged, default) ELSE merged
    IN  LeftMerge(input, assignments)

\* ChunkRows with the upper test `c <= lo + (i+1)*step`: a row whose centroid
\* lies on a chunk boundary falls into both neighbours
ChunkRowsClosedUpper(gdf, axis, lo, hi, n, i) ==
    SelectSeq(gdf, LAMBDA row :
        LET c == Centroid(row.geometry)
        IN  /\ c # NaN
            /\ c[axis] * n >= 2 * c[3] * (lo * n + i * (hi - lo))
            /\ IF i < n - 1
               THEN c[axis] * n <= 2 * c[3] * (lo * n + (i + 1) * (hi - lo))
               ELSE c[axis] <= 2 * c[3] * hi)

\* the rows of gdf whose centroid coordinate (axis 1 = x, 2 = y) lies in chunk
\* i of n along the axis; lo and hi are the bounds along that axis.  With
\* step = (hi - lo) / n the tests `c >= lo + i*step`, `c < lo + (i+1)*step`
\* and (last chunk) `c <= hi` are cross-multiplied by 2 * cells * n.  A NaN
\* centroid satisfies no comparison.
ChunkRows(gdf, axis, lo, hi, n, i) ==
    SelectSeq(gdf, LAMBDA row :
        LET c == Centroid(row.geometry)
        IN  /\ c # NaN
            /\ c[axis] * n >= 2 * c[3] * (lo * n + i * (hi - lo))
            /\ IF i < n - 1
               THEN c[axis] * n < 2 * c[3] * (lo * n + (i + 1) * (hi - lo))
               ELSE c[axis] <= 2 * c[3] * hi)

\* _partition_by_bounds: the non-empty chunks in order, or [gdf]
_partition_by_bounds(gdf, n_chunks) ==
    IF Len(gdf) = 0 \/ n_chunks <= 1 THEN <<gdf>>
    ELSE LET bounds == TotalBounds(gdf)
             axis == IF bounds # NaN /\ bounds[3] - bounds[1] >= bounds[4] - bounds[2]
                     THEN 1 ELSE 2
             all == IF bounds = NaN THEN <<>>
                    ELSE [i \in 1..n_chunks |->
                            ChunkRows(gdf, axis, bounds[axis], bounds[axis + 2],
                                      n_chunks, i - 1)]
             chunks == SelectSeq(all, LAMBDA ch : Len(ch) > 0)
         IN  IF chunks # <<>> THEN chunks ELSE <<gdf>>

\* max(1, int((os.cpu_count() or 4) * 0.8))
DefaultMaxWorkers(cpu_count) ==
    LET cpus == IF cpu_count = NO_CPU_COUNT THEN DEFAULT_CPU_COUNT ELSE cpu_count
        w == (cpus * 8) \div 10
    IN  IF w < 1 THEN 1 ELSE w

\* a narrower except clause: only NotImplementedError is caught
SpawnDeniedNarrow == {"NotImplementedError"}

\* `except (NotImplementedError, PermissionError, OSError)`: the exceptions
\* the parallel paths catch around the process pool
SpawnDenied == {"NotImplementedError", "PermissionError", "OSError"}

\* what creating the pool and its tasks can do: work, or raise
PoolOutcomes == {"ok", "NotImplementedError", "PermissionError", "OSError", "RuntimeError"}

\* what the computation of a chunk task can do in its worker process: return,
\* or raise an exception, which f.result() raises again in the caller
TaskOutcomes == {"ok", "OSError", "ValueError"}

\* the exceptions of f.result() the except clause around the pool catches:
\* `results = [f.result() for f in futures]` is inside the try block
TaskErrorsCaught == SpawnDenied

\* what majority_overlap returns: the path it took, the rows, the exception raised
MajorityOverlapResult(input, overlay, default, parallel, max_workers, cpu_count, pool, task, recurs) ==
    LET workers == IF max_workers = NO_MAX_WORKERS THEN DefaultMaxWorkers(cpu_count) ELSE max_workers
        chunks == _partition_by_bounds(input, workers)
        results == [k \in 1..Len(chunks) |->
                       _majority_overlap_sequential(chunks[k], overlay, default)]
        sequential == _majority_overlap_sequential(input, overlay, default)
    IN  IF ~parallel \/ Len(input) < SEQUENTIAL_THRESHOLD
        THEN [path |-> "sequential", rows |-> sequential, raised |-> NULL, task |-> NULL]
        ELSE IF Len(chunks) <= 1
        THEN [path |-> "single_chunk", rows |-> sequential, raised |-> NULL, task |-> NULL]
        ELSE IF pool \in SpawnDenied
        THEN [path |-> "fallback", rows |-> sequential, raised |-> NULL, task |-> NULL]
        ELSE IF pool # "ok"
        THEN [path |-> "raised", rows |-> <<>>, raised |-> pool, task |-> NULL]
        ELSE IF task \in TaskErrorsCaught
        THEN IF recurs
             THEN [path |-> "fallback", rows |-> <<>>, raised |-> task, task |-> task]
             ELSE [path |-> "fallback", rows |-> sequential, raised |-> NULL, task |-> task]
        ELSE IF task # "ok"
        THEN [path |-> "raised", rows |-> <<>>, raised |-> task, task |-> task]
        ELSE [path |-> "parallel", rows |-> LeftMerge(input, Concat(results)),
              raised |-> NULL, task |-> task]

----------------------------------------------------------------------------
(* worker/spatial/utils.py, operations.py, overlay.py *)

\* apply_precision(gdf, grid_size): every geometry snapped (an empty one is
\* passed through)
apply_precision(gdf, grid_size) ==
    [k \in 1..Len(gdf) |->
        [gdf[k] EXCEPT !.geometry = IF @ = {} THEN @ ELSE Snap(@, grid_size)]]

\* gpd.overlay(left, right, how="intersection", keep_geom_type=False): one
\* row per pair the spatial index reports, carrying both sides' attributes;
\* a pair that only touches yields a row of zero area
OverlayIntersection(left, right) ==
    Concat([i \in 1..Len(left) |->
        LET pairs == [j \in 1..Len(right) |->
                        [id |-> left[i].id, attr |-> right[j].attr,
                         hit |-> Intersects(left[i].geometry, right[j].geometry),
                         geometry |-> Intersection(left[i].geometry, right[j].geometry)]]
            hits == SelectSeq(pairs, LAMBDA r : r.hit)
        IN  [k \in 1..Len(hits) |->
                [id |-> hits[k].id, attr |-> hits[k].attr, geometry |-> hits[k].geometry]]])

\* gpd.overlay(left, right, how="difference", keep_geom_type=False): every
\* left row minus all of right, rows left with nothing are dropped
OverlayDifference(left, right) ==
    LET erase == UnaryUnion({right[j].geometry : j \in 1..Len(right)})
        cut == [i \in 1..Len(left) |-> [left[i] EXCEPT !.geometry = @ \ erase]]
    IN  SelectSeq(cut, LAMBDA r : r.geometry # {})

\* spatial_join_intersect without the snapping of its operands
spatial_join_intersect_unsnapped(left, right, grid_size) ==
    [rows |-> apply_precision(OverlayIntersection(left, right), grid_size),
     ops |-> <<"intersection", "apply_precision">>]

\* spatial_join_intersect(left, right, grid_size): the result rows and the
\* geometry operations in program order
spatial_join_intersect(left, right, grid_size) ==
    LET left_precise == apply_precision(left, grid_size)
        right_precise == apply_precision(right, grid_size)
        result == OverlayIntersection(left_precise, right_precise)
    IN  [rows |-> apply_precision(result, grid_size),
         ops |-> <<"apply_precision", "apply_precision", "intersection", "apply_precision">>]

\* buffer_with_dissolve(gdf, distance_m, dissolve, grid_size)
buffer_with_dissolve(gdf, distance_m, dissolve, grid_size) ==
    LET buffered == [k \in 1..Len(gdf) |->
                        [gdf[k] EXCEPT !.geometry = Buffer(@, distance_m)]]
        dissolved == <<[geometry |->
                          UnaryUnion({buffered[k].geometry : k \in 1..Len(buffered)})]>>
    IN  [rows |-> apply_precision(IF dissolve THEN dissolved ELSE buffered, grid_size),
         ops |-> <<"buffer">> \o (IF dissolve THEN <<"unary_union">> ELSE <<>>)
                     \o <<"apply_precision">>]

\* _difference_chunk(left_chunk, right_gdf)
_difference_chunk(left_chunk, right_gdf) == OverlayDifference(left_chunk, right_gdf)

\* overlay._partition_by_bounds: the non-empty chunks in order, or [gdf]
overlay_partition_by_bounds(gdf, n_chunks) ==
    IF Len(gdf) = 0 \/ n_chunks <= 1 THEN <<gdf>>
    ELSE LET bounds == TotalBounds(gdf)
             axis == IF bounds # NaN /\ bounds[3] - bounds[1] >= bounds[4] - bounds[2]
                     THEN 1 ELSE 2
             all == IF bounds = NaN THEN <<>>
                    ELSE [i \in 1..n_chunks |->
                            ChunkRows(gdf, axis, bounds[axis], bounds[axis + 2],
                                      n_chunks, i - 1)]
             chunks == SelectSeq(all, LAMBDA ch : Len(ch) > 0)
         IN  IF chunks # <<>> THEN chunks ELSE <<gdf>>

\* the sequential form of the difference on snapped operands
SequentialDifference(left_precise, right_precise, grid_size) ==
    apply_precision(OverlayDifference(left_precise, right_precise), grid_size)

\* spatial_difference_with_precision(left, right, grid_size, parallel,
\* max_workers): the path taken, the result rows, the exception raised and
\* the geometry operations in program order
SpatialDifferenceResult(left, right, grid_size, parallel, max_workers, cpu_count, pool, task, recurs) ==
    LET left_precise == apply_precision(left, grid_size)
        right_precise == apply_precision(right, grid_size)
        workers == IF max_workers = NO_MAX_WORKERS
                   THEN DefaultMaxWorkers(cpu_count) ELSE max_workers
        chunks == overlay_partition_by_bounds(left_precise, workers)
        results == [k \in 1..Len(chunks) |-> _difference_chunk(chunks[k], right_precise)]
        sequential == SequentialDifference(left_precise, right_precise, grid_size)
        ops == <<"apply_precision", "apply_precision", "difference", "apply_precision">>
    IN  IF ~parallel \/ Len(left_precise) < SEQUENTIAL_THRESHOLD
        THEN [path |-> "sequential", rows |-> sequential, raised |-> NULL, ops |-> ops,
              task |-> NULL]
        ELSE IF Len(chunks) <= 1
        THEN [path |-> "single_chunk", rows |-> sequential, raised |-> NULL, ops |-> ops,
              task |-> NULL]
        ELSE IF pool \in SpawnDenied
        THEN [path |-> "fallback", rows |-> sequential, raised |-> NULL, ops |-> ops,
              task |-> NULL]
        ELSE IF pool # "ok"
        THEN [path |-> "raised", rows |-> <<>>, raised |-> pool,
              ops |-> <<"apply_precision", "apply_precision">>, task |-> NULL]
        ELSE IF task \in TaskErrorsCaught
        THEN IF recurs
             THEN [path |-> "fallback", rows |-> <<>>, raised |-> task,
                   ops |-> <<"apply_precision", "apply_precision", "difference">>,
                   task |-> task]
             ELSE [path |-> "fallback", rows |-> sequential, raised |-> NULL, ops |-> ops,
                   task |-> task]
        ELSE IF task # "ok"
        THEN [path |-> "raised", rows |-> <<>>, raised |-> task,
              ops |-> <<"apply_precision", "apply_precision">>, task |-> task]
        ELSE [path |-> "parallel", rows |-> apply_precision(Concat(results), grid_size),
              raised |-> NULL, ops |-> ops, task |-> task]

----------------------------------------------------------------------------
(* The reference store: repositories/repository.py, models/db.py *)

Calls == 1..MaxCalls
\* the connections of the engine's pool: one for every call in progress
Conns == 1..MaxCalls
Versions == 1..MaxVersion

\* SpatialLayerType
SpatialLayerType ==
    {"WWTW_CATCHMENTS", "LPA_BOUNDARIES", "NN_CATCHMENTS", "SUBCATCHMENTS",
     "GCN_RISK_ZONES", "GCN_PONDS", "EDP_EDGES"}

\* the temporary tables of the two batched queries
TempTables == {"_tmp_input_geom", "_tmp_rlb"}

\* the temporary table a repository method stages its input in
TableOf(fn) ==
    IF fn = "majority_overlap_postgis" THEN "_tmp_input_geom" ELSE "_tmp_rlb"

\* a table name that names no table; tx is the transaction that created a table
NoTable == [exists |-> FALSE, tx |-> 0, rows |-> {}]

NoTemp == [conn \in Conns |-> [t \in TempTables |-> NoTable]]

\* a schema every connection shares
PublicSchema(conn) == 1

\* CREATE TEMPORARY TABLE: the table lives in the temporary schema of the
\* connection that runs the statement, which no other connection can name
TempSchema(conn) == conn

\* the table `name` as the statements of connection conn see it
TableSeen(tmp, conn, name) == tmp[TempSchema(conn)][name]

\* CREATE TEMPORARY TABLE name (...) ON COMMIT DROP, by transaction c
CreateTemporaryTable(tmp, conn, name, c) ==
    [tmp EXCEPT ![TempSchema(conn)][name] = [exists |-> TRUE, tx |-> c, rows |-> {}]]

\* INSERT INTO name ... VALUES rows
InsertInto(tmp, conn, name, rows) ==
    [tmp EXCEPT ![TempSchema(conn)][name].rows = @ \cup rows]

\* Session.close() of a session that never committed: the transaction is
\* rolled back, and with it every table it created
Rollback(tmp, conn, c) ==
    [tmp EXCEPT ![TempSchema(conn)] =
        [t \in TempTables |-> IF @[t].tx = c THEN NoTable ELSE @[t]]]

\* the rows the bulk insert stages for call c: (input_id, geom); staged_by
\* records the call that staged the row
InsertValues(gdf, c) ==
    {[input_id |-> gdf[i].id, geom |-> gdf[i].geometry, staged_by |-> c] :
        i \in 1..Len(gdf)}

\* WHERE overlay_filter AND ST_Intersects(t.geometry, i.geom)
LateralCandidates(layer, geom, layer_type, version) ==
    {t \in layer : /\ t.layer_type = layer_type
                   /\ t.version = version
                   /\ Intersects(t.geometry, geom)}

\* ORDER BY ST_Area(ST_Intersection(t.geometry, i.geom)) DESC LIMIT 1: the
\* attribute of any candidate of the largest area; NULL from the LEFT JOIN
\* for an input without candidate
LateralBest(layer, geom, layer_type, version) ==
    LET cand == LateralCandidates(layer, geom, layer_type, version)
        area(t) == Area(Intersection(t.geometry, geom))
    IN  IF cand = {} THEN {NULL}
        ELSE {t.attr : t \in {u \in cand : \A w \in cand : area(w) <= area(u)}}

\* `/ 10000.0`: square metres per hectare
SQM_PER_HECTARE == 10000

\* the 3-way intersection query of land_use_intersection_postgis over the
\* staged rows; the area is the fraction area / SQM_PER_HECTARE
ThreeWayQuery(staged, coeffs, layer, coeff_version, nn_version) ==
    {[rlb_id |-> r.input_id, staged_by |-> r.staged_by, crome_id |-> c.crome_id,
      n2k_site_n |-> nn.attr,
      area_in_nn_catchment_ha |->
          <<Area(Intersection(Intersection(r.geom, c.geometry), nn.geometry)),
            SQM_PER_HECTARE>>] :
        <<r, c, nn>> \in
            {x \in staged \X coeffs \X layer :
                /\ x[2].version = coeff_version
                /\ Intersects(x[1].geom, x[2].geometry)
                /\ x[3].layer_type = "NN_CATCHMENTS"
                /\ x[3].version = nn_version
                /\ Intersects(x[1].geom, x[3].geometry)
                /\ Intersects(x[2].geometry, x[3].geometry)
                /\ Area(Intersection(Intersection(x[1].geom, x[2].geometry),
                                     x[3].geometry)) > 0}}

\* df[output_field].fillna(default_value) when default_value is not None
FillNaRows(rows, default) ==
    IF default = NULL THEN rows
    ELSE {[r EXCEPT !.value = IF @ = NULL THEN default ELSE @] : r \in rows}

\* a call slot of the repository with no call in progress
IdleSession ==
    [fn |-> "none", pc |-> "idle", conn |-> 0, layer_type |-> NULL, version |-> 0,
     coeff_version |-> 0, nn_version |-> 0, rows |-> {}, raised |-> NULL]

NoSessions == [c \in Calls |-> IdleSession]

----------------------------------------------------------------------------
(* Assessment instances: assessments/nutrient.py, assessments/gcn.py *)

\* the keys of NutrientAssessment._version_cache: f"spatial_{layer_type.name}"
\* for a layer type, "coefficient" for the coefficient layer
CacheKey(layer_type) == layer_type
COEFFICIENT_KEY == "coefficient"

\* the layer types _assign_spatial_features resolves a version of
AssignmentLayerTypes == {"WWTW_CATCHMENTS", "LPA_BOUNDARIES", "SUBCATCHMENTS"}

\* the layer types the habitat/pond assessment reads
GcnLayerTypes == {"GCN_RISK_ZONES", "GCN_PONDS"}

CacheKeys == {CacheKey(t) : t \in AssignmentLayerTypes} \cup {COEFFICIENT_KEY}

\* the methods class Repository defines
RepositoryMethods ==
    {"session", "execute_query", "majority_overlap_postgis",
     "land_use_intersection_postgis", "intersection_postgis", "close"}

\* func.max(version) over no rows is NULL: the integer standing for None
NO_VERSION == 0
\* `result[0] if result else 1`
DEFAULT_VERSION == 1

\* the versions stored under a cache key
StoredVersions(layer, coeffs, cache_key) ==
    IF cache_key = COEFFICIENT_KEY
    THEN {c.version : c \in coeffs}
    ELSE {t.version : t \in {u \in layer : CacheKey(u.layer_type) = cache_key}}

\* execute_query(select(func.max(version)) ..., as_gdf=False): the list of
\* the scalars of the one row an aggregate query returns
MaxVersionQuery(stored) == <<IF stored = {} THEN NO_VERSION ELSE MaxOf(stored)>>

\* the version the cache gets from a query result
FromResult(result) == IF Len(result) > 0 THEN result[1] ELSE DEFAULT_VERSION

\* the store is queried on every call
ResolveUncached(cache, cache_key, stored) ==
    LET v == FromResult(MaxVersionQuery(stored))
    IN  [cache |-> (cache_key :> v) @@ cache, value |-> v, queried |-> 1]

\* _resolve_latest_version / _resolve_latest_coeff_version on the cache of an
\* instance: the cache after the call, the value returned and the number of
\* queries sent to the store
ResolveCached(cache, cache_key, stored) ==
    IF cache_key \notin DOMAIN cache
    THEN LET v == FromResult(MaxVersionQuery(stored))
         IN  [cache |-> (cache_key :> v) @@ cache, value |-> v, queried |-> 1]
    ELSE [cache |-> cache, value |-> cache[cache_key], queried |-> 0]

\* no survey file: the path is missing or empty
NoSurveyFile == [path |-> "", columns |-> {}, rows |-> {}]

\* the metadata of a job that names no survey file
NoMetadata == [survey_ponds_path |-> NoSurveyFile]

\* the worker runs no assessment
NoRun ==
    [kind |-> "none", pc |-> "none", _version_cache |-> <<>>,
     queries |-> [k \in CacheKeys |-> 0], returned |-> {}, hit |-> FALSE,
     reads |-> {}, stagings |-> 0, assigned |-> {}, raised |-> NULL,
     metadata |-> NoMetadata, risk_zones |-> {}, ponds |-> {}, ponds_in_rlb |-> {},
     ponds_in_buffer |-> {}, pond_zones |-> {}, tables |-> <<>>]

\* the instance after a call of a resolve method for cache_key: queries counts
\* the queries sent for a key, returned collects what the calls returned, and
\* hit tells whether the call was answered from the cache
AfterResolve(r, cache_key, stored) ==
    LET res == ResolveCached(r._version_cache, cache_key, stored)
    IN  [r EXCEPT !._version_cache = res.cache,
                  !.queries[cache_key] = @ + res.queried,
                  !.returned = @ \cup {<<cache_key, res.value>>},
                  !.hit = (res.queried = 0)]

\* the output fields of the three assignments
AssignedFields == {"majority_wwtw_id", "majority_name", "majority_opcat_name"}

\* _assign_spatial_features: the three versions are resolved, then the batch
\* method is looked up on the repository.  The first branch is what the
\* method's docstring describes (one session, one temp table, the three
\* assignments merged onto the input); the second is Python's attribute
\* lookup on a Repository that has no method of that name.
AssignSpatialFeatures(r, layer, coeffs) ==
    LET r1 == AfterResolve(r, CacheKey("WWTW_CATCHMENTS"),
                           StoredVersions(layer, coeffs, CacheKey("WWTW_CATCHMENTS")))
        r2 == AfterResolve(r1, CacheKey("LPA_BOUNDARIES"),
                           StoredVersions(layer, coeffs, CacheKey("LPA_BOUNDARIES")))
        r3 == AfterResolve(r2, CacheKey("SUBCATCHMENTS"),
                           StoredVersions(layer, coeffs, CacheKey("SUBCATCHMENTS")))
    IN  IF "batch_majority_overlap_postgis" \in RepositoryMethods
        THEN [r3 EXCEPT !.pc = "assigned", !.stagings = @ + 1,
                        !.assigned = AssignedFields]
        ELSE [r3 EXCEPT !.pc = "failed", !.raised = "AttributeError"]

\* the features a query of the habitat/pond assessment returns: every row of
\* the layer type that intersects the extent; `latest` records the largest
\* version stored for the layer type when the query ran
LayerRead(layer, layer_type, extent) ==
    LET rows == {t \in layer : t.layer_type = layer_type /\ Intersects(t.geometry, extent)}
        stored == {t.version : t \in {u \in layer : u.layer_type = layer_type}}
    IN  {[layer_type |-> t.layer_type, version |-> t.version, latest |-> MaxOf(stored)] :
            t \in rows}

----------------------------------------------------------------------------
(* worker/assessments/gcn.py *)

\* Repository.intersection_postgis(extent, SpatialLayer, layer_type == ..., ["attributes"])
\* followed by the extraction of RZ from the attributes: one row per stored
\* feature of the layer type that intersects the extent, whatever its
\* version, with the feature's geometry cut to the extent
RiskZonesClipped(layer, extent) ==
    {[fid |-> t.fid, RZ |-> t.attr, geometry |-> Intersection(t.geometry, extent)] :
        t \in {u \in layer : /\ u.layer_type = "GCN_RISK_ZONES"
                             /\ Intersects(u.geometry, extent)}}

\* the check of the RZ values never raising
RzMissingIgnored(risk_zones) == FALSE

\* risk_zones_clipped["RZ"].isna().all(), which is True for a table without rows
RzMissing(risk_zones) == \A z \in risk_zones : z.RZ = NULL

\* the national ponds the query of gcn.py returns, with the two columns the
\* assessment adds
NationalPonds(layer, extent) ==
    {[fid |-> t.fid, PANS |-> "NS", TmpImp |-> "F", geometry |-> t.geometry] :
        t \in {u \in layer : /\ u.layer_type = "GCN_PONDS"
                             /\ Intersects(u.geometry, extent)}}

\* the survey ponds read from the file; a missing TmpImp column is filled
\* with "F"
SurveyPonds(file) ==
    {[fid |-> p.fid, PANS |-> p.PANS, geometry |-> p.geometry,
      TmpImp |-> IF "TmpImp" \in file.columns THEN p.TmpImp ELSE "F"] : p \in file.rows}

\* clip_gdf(ponds, mask) for point features: gpd.clip keeps the points that
\* intersect the mask as they are and drops the others.  A pond is drawn as
\* the cell around its point.
ClipPoints(ponds, mask) == {p \in ponds : Intersects(p.geometry, mask)}

\* clip_gdf(gdf, mask) for polygon features: the rows that intersect the
\* mask, cut to it
clip_gdf(rows, mask) ==
    {[r EXCEPT !.geometry = Intersection(@, mask)] :
        r \in {q \in rows : Intersects(q.geometry, mask)}}

\* gpd.sjoin(all_ponds_clipped, rlb, predicate="intersects", how="inner"):
\* one row per (pond, boundary row) pair, indexed by the pond
SjoinRlb(ponds, rlb) ==
    {<<pi[1].fid, pi[2]>> :
        pi \in {qj \in ponds \X (1..Len(rlb)) :
                   Intersects(qj[1].geometry, rlb[qj[2]].geometry)}}

\* all_ponds_clipped.loc[index]: one row per index entry, so a pond comes
\* out once for every time its index is listed
PondsAtEveryEntry(ponds, joined) ==
    {LET p == CHOOSE q \in ponds : q.fid = e[1]
     IN  [fid |-> p.fid, PANS |-> p.PANS, TmpImp |-> p.TmpImp, geometry |-> p.geometry,
          Area |-> "RLB", entry |-> e[2]] : e \in joined}

\* all_ponds_clipped.loc[rlb_intersecting_ponds.index.unique()]: every pond
\* that intersects some boundary row, once
PondsAtUniqueIndex(ponds, joined) ==
    {[fid |-> p.fid, PANS |-> p.PANS, TmpImp |-> p.TmpImp, geometry |-> p.geometry,
      Area |-> "RLB", entry |-> 0] :
        p \in {q \in ponds : \E e \in joined : e[1] = q.fid}}

\* the ponds split into the "RLB" and the "Buffer" region (gcn.py steps 1-3)
AssignPondAreas(ponds, rlb, extent) ==
    LET all_ponds_clipped == ClipPoints(ponds, extent)
        rlb_intersecting_ponds == SjoinRlb(all_ponds_clipped, rlb)
        boundary == UnaryUnion({rlb[i].geometry : i \in 1..Len(rlb)})
        ponds_in_rlb == PondsAtUniqueIndex(all_ponds_clipped, rlb_intersecting_ponds)
        in_rlb == ClipPoints(ponds_in_rlb, boundary)
        in_buffer == {[fid |-> p.fid, PANS |-> p.PANS, TmpImp |-> p.TmpImp,
                       geometry |-> p.geometry, Area |-> "Buffer", entry |-> 0] :
                        p \in {q \in all_ponds_clipped :
                                  ~ \E e \in rlb_intersecting_ponds : e[1] = q.fid}}
    IN  [ponds_in_rlb |-> in_rlb, ponds_in_buffer |-> in_buffer]

\* the alphabetical order of the zone names, as sorted() sees them
ZoneRank(name) ==
    CASE name = "" -> 0
      [] name = "Amber" -> 1
      [] name = "Green" -> 2
      [] name = "Red" -> 3
      [] name = "White" -> 4

\* sorted(set(x)) for the zone names x
SortedZones(names) ==
    [k \in 1..Cardinality(names) |->
        CHOOSE n \in names : Cardinality({m \in names : ZoneRank(m) < ZoneRank(n)}) = k - 1]

\* ":".join(names): a string is the sequence of its names and separators
JoinZones(names) ==
    IF names = <<>> THEN <<>>
    ELSE ConcatRange([k \in 1..Len(names) |->
                        IF k = 1 THEN <<names[k]>> ELSE <<":", names[k]>>], 1, Len(names))

\* zones.split(":"): the words between the separators; a string without a
\* separator is one word, so the empty string splits into one empty word
RECURSIVE SplitZones(_)
SplitZones(str) ==
    IF \A k \in 1..Len(str) : str[k] # ":"
    THEN <<IF str = <<>> THEN "" ELSE str[1]>>
    ELSE LET at == CHOOSE k \in 1..Len(str) :
                       /\ str[k] = ":"
                       /\ \A j \in 1..(k - 1) : str[j] # ":"
         IN  <<IF at = 1 THEN "" ELSE str[1]>>
                 \o SplitZones(SubSeq(str, at + 1, Len(str)))

\* highest_zone with Amber looked for before Red
highest_zone_amber_first(zones) ==
    LET zone_list == SplitZones(zones)
        listed(n) == \E k \in 1..Len(zone_list) : zone_list[k] = n
    IN  IF listed("Amber") THEN "Amber"
        ELSE IF listed("Red") THEN "Red"
        ELSE IF listed("Green") THEN "Green"
        ELSE IF zone_list # <<>> THEN zone_list[1] ELSE "Unknown"

\* highest_zone(zones)
highest_zone(zones) ==
    LET zone_list == SplitZones(zones)
        listed(n) == \E k \in 1..Len(zone_list) : zone_list[k] = n
    IN  IF listed("Red") THEN "Red"
        ELSE IF listed("Amber") THEN "Amber"
        ELSE IF listed("Green") THEN "Green"
        ELSE IF zone_list # <<>> THEN zone_list[1] ELSE "Unknown"

\* Pond_ID: the region's prefix and the pond's position in its table
PondId(p) == <<IF p.Area = "RLB" THEN "RLB_" ELSE "BUF_", p.fid, p.entry>>

\* gpd.sjoin(all_ponds, risk_zones, how="inner", predicate="intersects"):
\* the (pond, zone) pairs that intersect; a pond without a zone has no pair
PondsWithZones(all_ponds, risk_zones) ==
    {<<p, z>> \in all_ponds \X risk_zones : Intersects(p.geometry, z.geometry)}

\* the groups of groupby(["Pond_ID", "PANS", "TmpImp", "Area"]): the ponds
\* that have a pair; a group whose key holds a null is dropped
PondGroups(pairs) ==
    {p \in {pz[1] : pz \in pairs} : p.PANS # NULL /\ p.TmpImp # NULL}

\* the RZ values of a pond's pairs
ZonesOf(p, pairs) == {pz[2].RZ : pz \in {q \in pairs : q[1] = p}}

\* _calculate_pond_frequency(ponds_in_rlb, ponds_in_buffer, risk_zones):
\* the per-pond table (pond_zones) and the frequency table, or the
\* TypeError of sorted() / join() over a null RZ
_calculate_pond_frequency(ponds_in_rlb, ponds_in_buffer, risk_zones) ==
    LET all_ponds == ponds_in_rlb \cup ponds_in_buffer
        pairs == PondsWithZones(all_ponds, risk_zones)
        groups == PondGroups(pairs)
        pond_zones ==
            {[Pond_ID |-> PondId(p), PANS |-> p.PANS, TmpImp |-> p.TmpImp, Area |-> p.Area,
              MaxZone |-> highest_zone(JoinZones(SortedZones(ZonesOf(p, pairs))))] :
                p \in groups}
        keys == {[PANS |-> r.PANS, Area |-> r.Area, MaxZone |-> r.MaxZone,
                  TmpImp |-> r.TmpImp] : r \in pond_zones}
        keyOf(r) == [PANS |-> r.PANS, Area |-> r.Area, MaxZone |-> r.MaxZone,
                     TmpImp |-> r.TmpImp]
    IN  IF \E p \in groups : NULL \in ZonesOf(p, pairs)
        THEN [raised |-> "TypeError", pond_zones |-> {}, pond_frequency |-> {}]
        ELSE [raised |-> NULL,
              pond_zones |-> pond_zones,
              pond_frequency |->
                 {[PANS |-> k.PANS, Area |-> k.Area, MaxZone |-> k.MaxZone,
                   TmpImp |-> k.TmpImp,
                   FREQUENCY |-> Cardinality({r \in pond_zones : keyOf(r) = k})] :
                     k \in keys}]

\* the rows of a table whose row order the program does not depend on
RECURSIVE RowsOf(_)
RowsOf(S) ==
    IF S = {} THEN <<>>
    ELSE LET r == CHOOSE x \in S : TRUE IN <<r>> \o RowsOf(S \ {r})

\* precision_grid_size, in cells
GCN_GRID_CELLS == 1

\* pond_buffer_distance_m, in cells
POND_BUFFER_CELLS == 2

\* rlb with Area = "RLB" followed by the dissolved buffer with Area = "Buffer"
RlbWithBuffer(rlb, distance) ==
    [i \in 1..Len(rlb) |-> [id |-> "RLB", geometry |-> rlb[i].geometry]]
        \o [k \in 1..1 |->
              [id |-> "Buffer",
               geometry |-> buffer_with_dissolve(rlb, distance, TRUE, GCN_GRID_CELLS).rows[k].geometry]]

\* _calculate_habitat_impact(rlb_with_buffer, risk_zones, ponds): the rows
\* <<Area, RZ, Shape_Area>> of positive area
_calculate_habitat_impact(rlb_with_buffer, risk_zones, ponds) ==
    LET ponds_buffered == buffer_with_dissolve(RowsOf(ponds), POND_BUFFER_CELLS, TRUE,
                                               GCN_GRID_CELLS).rows
        risk_zones_in_pond_buffer == clip_gdf(risk_zones, ponds_buffered[1].geometry)
        right == RowsOf({[fid |-> z.fid, attr |-> z.RZ, geometry |-> z.geometry] :
                            z \in risk_zones_in_pond_buffer})
        habitat_impact == spatial_join_intersect(rlb_with_buffer, right, GCN_GRID_CELLS).rows
        with_area == [k \in 1..Len(habitat_impact) |->
                        [Area |-> habitat_impact[k].id, RZ |-> habitat_impact[k].attr,
                         Shape_Area |-> Area(habitat_impact[k].geometry)]]
    IN  SelectSeq(with_area, LAMBDA r : r.Shape_Area > 0)

----------------------------------------------------------------------------
(* Inputs *)

\* the base input geometry: a 2 x 1 box, laid along the x or the y axis
BaseShape(axis, at) ==
    IF axis = 1 THEN Rect(at, 0, at + 2, 1) ELSE Rect(0, at, 1, at + 2)

\* an overlay geometry: the strip [a, b] along the axis
Strip(axis, a, b) ==
    IF axis = 1 THEN Rect(a, 0, b, 1) ELSE Rect(0, a, 1, b)

\* n rows with ids 1..n; row i is the base shape at site (i-1) \div perSite
\* along the axis; row emptyAt (0: none) has an empty geometry
InputTable(n, axis, perSite, emptyAt) ==
    [i \in 1..n |->
        [id |-> i,
         geometry |-> IF i = emptyAt THEN {} ELSE BaseShape(axis, (i - 1) \div perSite)]]

\* overlay features along the axis: strips that cover the first site, overlap
\* half of it or only touch it, with the attribute present or missing
Features(axis) ==
    {[attr |-> "A", geometry |-> Strip(axis, 0, 2)],
     [attr |-> "A", geometry |-> Strip(axis, 1, 3)],
     [attr |-> "B", geometry |-> Strip(axis, 1, 3)],
     [attr |-> "B", geometry |-> Strip(axis, 2, 3)],
     [attr |-> NULL, geometry |-> Strip(axis, 0, 2)]}

\* small input tables, every row on its own site, meet every overlay table
\* of 1..MaxOverlay features
SmallInputs ==
    {<<InputTable(n, axis, 1, emptyAt), overlay>> :
        n \in 1..MaxSmallRows, axis \in {1, 2}, emptyAt \in {0, 2},
        overlay \in UNION {[1..m -> Features(1)] : m \in 1..MaxOverlay}}

\* the two-feature overlay table met by the input tables around the
\* sequential threshold
LargeOverlay(axis) ==
    <<[attr |-> "A", geometry |-> Strip(axis, 0, 2)],
      [attr |-> "B", geometry |-> Strip(axis, 2, 3)]>>

\* input tables around the sequential threshold: 25 rows per site along
\* either axis, and one table with every row on the same site
LargeInputs ==
    {<<InputTable(n, axis, 25, emptyAt), LargeOverlay(axis)>> :
        n \in (SEQUENTIAL_THRESHOLD - 1)..(SEQUENTIAL_THRESHOLD + MaxExtraRows),
        axis \in {1, 2}, emptyAt \in {0, 2}}
    \cup {<<InputTable(SEQUENTIAL_THRESHOLD, 1, 128, 0), LargeOverlay(1)>>}

\* precision grid sizes, in cells
GridSizes == {1, 2}

\* buffer distances, in cells
Distances == {0, 1}

NoCall == [fn |-> "none", path |-> NULL, rows |-> <<>>, raised |-> NULL, pool |-> NULL,
           ops |-> <<>>, grid_size |-> 0]

Init ==
    /\ \E io \in SmallInputs \cup LargeInputs :
          /\ input_gdf = io[1]
          /\ overlay_gdf = io[2]
    /\ default_value \in {"D", NULL}
    /\ call = NoCall
    /\ spatial_layer = {}
    /\ coefficient_layer = {}
    /\ temp = NoTemp
    /\ sess = NoSessions
    /\ run = NoRun

----------------------------------------------------------------------------
(* Operations *)

\* majority_overlap(input_gdf, overlay_gdf, ..., default_value, parallel, max_workers)
\* under os.cpu_count() = cpu_count and a process pool that works ("ok") or
\* raises the exception `pool` when tasks are created, and chunk tasks that
\* return ("ok") or of which one raises the exception `task`; `recurs` says
\* whether the computation raises it again when the caller repeats it
majority_overlap(parallel, max_workers, cpu_count, pool, task, recurs) ==
    /\ call.fn = "none"
    /\ call' = [fn |-> "majority_overlap", pool |-> pool, ops |-> <<>>, grid_size |-> 0] @@
               MajorityOverlapResult(input_gdf, overlay_gdf, default_value,
                                     parallel, max_workers, cpu_count, pool, task, recurs)
    /\ UNCHANGED <<input_gdf, overlay_gdf, default_value>>
    /\ UNCHANGED <<layerVars, sessionVars, run>>

\* spatial_difference_with_precision(input_gdf, overlay_gdf, grid_size, parallel, max_workers)
spatial_difference_with_precision(grid_size, parallel, max_workers, cpu_count, pool, task, recurs) ==
    /\ call.fn = "none"
    /\ call' = [fn |-> "spatial_difference_with_precision", pool |-> pool,
                grid_size |-> grid_size] @@
               SpatialDifferenceResult(input_gdf, overlay_gdf, grid_size,
                                       parallel, max_workers, cpu_count, pool, task, recurs)
    /\ UNCHANGED <<input_gdf, overlay_gdf, default_value>>
    /\ UNCHANGED <<layerVars, sessionVars, run>>

\* buffer_with_dissolve(input_gdf, distance_m, dissolve, grid_size)
BufferWithDissolve(distance_m, dissolve, grid_size) ==
    /\ call.fn = "none"
    /\ call' = [fn |-> "buffer_with_dissolve", pool |-> NULL, path |-> NULL,
                raised |-> NULL, grid_size |-> grid_size] @@
               buffer_with_dissolve(input_gdf, distance_m, dissolve, grid_size)
    /\ UNCHANGED <<input_gdf, overlay_gdf, default_value>>
    /\ UNCHANGED <<layerVars, sessionVars, run>>

\* spatial_join_intersect(input_gdf, overlay_gdf, grid_size)
SpatialJoinIntersect(grid_size) ==
    /\ call.fn = "none"
    /\ call' = [fn |-> "spatial_join_intersect", pool |-> NULL, path |-> NULL,
                raised |-> NULL, grid_size |-> grid_size] @@
               spatial_join_intersect(input_gdf, overlay_gdf, grid_size)
    /\ UNCHANGED <<input_gdf, overlay_gdf, default_value>>
    /\ UNCHANGED <<layerVars, sessionVars, run>>

Next ==
    \/ majority_overlap(FALSE, NO_MAX_WORKERS, NO_CPU_COUNT, "ok", "ok", FALSE)
    \/ \E max_workers \in 1..MaxWorkersArg, pool \in PoolOutcomes :
          majority_overlap(TRUE, max_workers, NO_CPU_COUNT, pool, "ok", FALSE)
    \/ \E max_workers \in 1..MaxWorkersArg, task \in TaskOutcomes \ {"ok"},
          recurs \in BOOLEAN :
          majority_overlap(TRUE, max_workers, NO_CPU_COUNT, "ok", task, recurs)
    \/ \E cpu_count \in {NO_CPU_COUNT, 1} :
          majority_overlap(TRUE, NO_MAX_WORKERS, cpu_count, "ok", "ok", FALSE)
    \/ \E grid_size \in GridSizes :
          spatial_difference_with_precision(grid_size, FALSE, NO_MAX_WORKERS, NO_CPU_COUNT,
                                            "ok", "ok", FALSE)
    \/ \E grid_size \in GridSizes, max_workers \in 1..MaxWorkersArg, pool \in PoolOutcomes :
          spatial_difference_with_precision(grid_size, TRUE, max_workers, NO_CPU_COUNT, pool,
                                            "ok", FALSE)
    \/ \E grid_size \in GridSizes, max_workers \in 1..MaxWorkersArg,
          task \in TaskOutcomes \ {"ok"}, recurs \in BOOLEAN :
          spatial_difference_with_precision(grid_size, TRUE, max_workers, NO_CPU_COUNT, "ok",
                                            task, recurs)
    \/ \E grid_size \in GridSizes :
          spatial_difference_with_precision(grid_size, TRUE, NO_MAX_WORKERS, NO_CPU_COUNT,
                                            "ok", "ok", FALSE)
    \/ \E distance_m \in Distances, dissolve \in BOOLEAN, grid_size \in GridSizes :
          BufferWithDissolve(distance_m, dissolve, grid_size)
    \/ \E grid_size \in GridSizes : SpatialJoinIntersect(grid_size)

Spec == Init /\ [][Next]_vars

----------------------------------------------------------------------------
(* The batched queries of the repository, statement by statement *)

\* the reference layer the remote assignment is filtered to, and its version,
\* when the overlay features are stored for it
OVERLAY_LAYER == "WWTW_CATCHMENTS"
OVERLAY_VERSION == 1

\* the overlay features as rows of nrf_reference.spatial_layer
StoredOverlay(overlay) ==
    {[layer_type |-> OVERLAY_LAYER, version |-> OVERLAY_VERSION,
      attr |-> overlay[k].attr, geometry |-> overlay[k].geometry] :
        k \in 1..Len(overlay)}

\* rows of other layer types and versions the store holds next to them
OtherLayers ==
    {[layer_type |-> OVERLAY_LAYER, version |-> OVERLAY_VERSION + 1,
      attr |-> "Z", geometry |-> Strip(1, 0, 3)],
     [layer_type |-> "LPA_BOUNDARIES", version |-> OVERLAY_VERSION,
      attr |-> "Z", geometry |-> Strip(1, 0, 3)]}
    \cup {[layer_type |-> "NN_CATCHMENTS", version |-> v,
           attr |-> "N", geometry |-> Strip(1, v, 3)] :
              v \in {OVERLAY_VERSION, OVERLAY_VERSION + 1}}

\* rows of nrf_reference.coefficient_layer
StoredCoefficients ==
    {[version |-> v, crome_id |-> v, geometry |-> Strip(1, 0, v + 1)] :
        v \in {OVERLAY_VERSION, OVERLAY_VERSION + 1}}

\* input and overlay tables of the remote assignment: two input rows, the
\* second one possibly empty, and overlays of one or two features
StoreInputs ==
    {<<InputTable(Cardinality({1, 2}), 1, 1, emptyAt), overlay>> :
        emptyAt \in {0, 2},
        overlay \in {<<f>> : f \in Features(1)}
                    \cup {<<f, [attr |-> "B", geometry |-> Strip(1, 1, 3)]>> :
                             f \in Features(1)}}

InitStore ==
    /\ \E io \in StoreInputs :
          /\ input_gdf = io[1]
          /\ overlay_gdf = io[2]
          /\ spatial_layer = StoredOverlay(io[2]) \cup OtherLayers
    /\ default_value \in {"D", NULL}
    /\ call = NoCall
    /\ coefficient_layer = StoredCoefficients
    /\ temp = NoTemp
    /\ sess = NoSessions
    /\ run = NoRun

\* a repository method is entered by call c.  An empty input returns an empty
\* table at once.  Otherwise the first statement checks a connection out of the
\* pool, begins a transaction and creates the temporary table; when the name
\* is taken the statement raises and the `with` block closes the session.
BeginCall(c, fn, conn, args) ==
    /\ sess[c].pc = "idle"
    /\ \A d \in Calls : sess[d].conn # conn
    /\ LET entered == [IdleSession EXCEPT !.fn = fn,
                                          !.layer_type = args.layer_type,
                                          !.version = args.version,
                                          !.coeff_version = args.coeff_version,
                                          !.nn_version = args.nn_version]
       IN  IF Len(input_gdf) = 0
           THEN /\ sess' = [sess EXCEPT ![c] = [entered EXCEPT !.pc = "returned"]]
                /\ temp' = temp
           ELSE IF TableSeen(temp, conn, TableOf(fn)).exists
           THEN /\ sess' = [sess EXCEPT ![c] =
                               [entered EXCEPT !.pc = "raised",
                                               !.raised = "ProgrammingError"]]
                /\ temp' = Rollback(temp, conn, c)
           ELSE /\ sess' = [sess EXCEPT ![c] =
                               [entered EXCEPT !.pc = "created", !.conn = conn]]
                /\ temp' = CreateTemporaryTable(temp, conn, TableOf(fn), c)
    /\ UNCHANGED <<spatialVars, layerVars, run>>

\* majority_overlap_postgis(input_gdf, SpatialLayer, filter, ..., default_value)
majority_overlap_postgis(c, conn) ==
    BeginCall(c, "majority_overlap_postgis", conn,
              [layer_type |-> OVERLAY_LAYER, version |-> OVERLAY_VERSION,
               coeff_version |-> 0, nn_version |-> 0])

\* land_use_intersection_postgis(input_gdf, coeff_version, nn_version)
land_use_intersection_postgis(c, conn, coeff_version, nn_version) ==
    BeginCall(c, "land_use_intersection_postgis", conn,
              [layer_type |-> NULL, version |-> 0,
               coeff_version |-> coeff_version, nn_version |-> nn_version])

\* 2. the bulk insert of the input geometries
BulkInsert(c) ==
    /\ sess[c].pc = "created"
    /\ temp' = InsertInto(temp, sess[c].conn, TableOf(sess[c].fn),
                          InsertValues(input_gdf, c))
    /\ sess' = [sess EXCEPT ![c].pc = "inserted"]
    /\ UNCHANGED <<spatialVars, layerVars, run>>

\* 3. CREATE INDEX ON the temporary table USING GIST (geom)
CreateIndex(c) ==
    /\ sess[c].pc = "inserted"
    /\ TableSeen(temp, sess[c].conn, TableOf(sess[c].fn)).exists
    /\ sess' = [sess EXCEPT ![c].pc = "indexed"]
    /\ UNCHANGED <<spatialVars, layerVars, temp, run>>

\* 4. the LATERAL join of majority_overlap_postgis: one row per staged row
LateralQuery(c) ==
    /\ sess[c].pc = "indexed"
    /\ sess[c].fn = "majority_overlap_postgis"
    /\ LET staged == TableSeen(temp, sess[c].conn, "_tmp_input_geom").rows
           best(r) == LateralBest(spatial_layer, r.geom, sess[c].layer_type,
                                  sess[c].version)
       IN  \E pick \in [staged -> UNION {best(r) : r \in staged}] :
              /\ \A r \in staged : pick[r] \in best(r)
              /\ sess' = [sess EXCEPT
                     ![c].pc = "queried",
                     ![c].rows = {[id |-> r.input_id, value |-> pick[r],
                                   staged_by |-> r.staged_by] : r \in staged}]
    /\ UNCHANGED <<spatialVars, layerVars, temp, run>>

\* 4. the 3-way intersection query of land_use_intersection_postgis
LandUseQuery(c) ==
    /\ sess[c].pc = "indexed"
    /\ sess[c].fn = "land_use_intersection_postgis"
    /\ sess' = [sess EXCEPT
           ![c].pc = "queried",
           ![c].rows = ThreeWayQuery(TableSeen(temp, sess[c].conn, "_tmp_rlb").rows,
                                     coefficient_layer, spatial_layer,
                                     sess[c].coeff_version, sess[c].nn_version)]
    /\ UNCHANGED <<spatialVars, layerVars, temp, run>>

\* the `with` block is left after the query: the session is closed without
\* commit, the connection goes back to the pool, and the method returns the
\* table of the fetched rows (majority_overlap_postgis fills in the default)
SessionExit(c) ==
    /\ sess[c].pc = "queried"
    /\ temp' = Rollback(temp, sess[c].conn, c)
    /\ sess' = [sess EXCEPT
           ![c].pc = "returned",
           ![c].conn = 0,
           ![c].rows = IF sess[c].fn = "majority_overlap_postgis"
                       THEN FillNaRows(@, default_value) ELSE @]
    /\ UNCHANGED <<spatialVars, layerVars, run>>

\* a statement after the CREATE raises (the connection is lost, a statement
\* times out): the `with` block closes the session and the error propagates
SessionRaise(c) ==
    /\ sess[c].pc \in {"created", "inserted", "indexed"}
    /\ temp' = Rollback(temp, sess[c].conn, c)
    /\ sess' = [sess EXCEPT ![c].pc = "raised", ![c].conn = 0, ![c].rows = {},
                            ![c].raised = "DBAPIError"]
    /\ UNCHANGED <<spatialVars, layerVars, run>>

\* the caller has the result or the error: slot c is free for the next call
CallDone(c) ==
    /\ sess[c].pc \in {"returned", "raised"}
    /\ sess' = [sess EXCEPT ![c] = IdleSession]
    /\ UNCHANGED <<spatialVars, layerVars, temp, run>>

NextStore ==
    \/ \E c \in Calls, conn \in Conns : majority_overlap_postgis(c, conn)
    \/ \E c \in Calls, conn \in Conns :
          land_use_intersection_postgis(c, conn, OVERLAY_VERSION, OVERLAY_VERSION)
    \/ \E c \in Calls : BulkInsert(c)
    \/ \E c \in Calls : CreateIndex(c)
    \/ \E c \in Calls : LateralQuery(c)
    \/ \E c \in Calls : LandUseQuery(c)
    \/ \E c \in Calls : SessionExit(c)
    \/ \E c \in Calls : SessionRaise(c)
    \/ \E c \in Calls : CallDone(c)

SpecStore == InitStore /\ [][NextStore]_vars

----------------------------------------------------------------------------
(* Assessment runs of one worker against a store whose layers are reloaded *)

\* the one feature version v of a layer type is stored with
LayerFeature(layer_type, v) ==
    [layer_type |-> layer_type, version |-> v, fid |-> v,
     attr |-> IF layer_type = "GCN_RISK_ZONES" THEN "Amber" ELSE "A",
     geometry |-> Strip(1, 0, 2)]

\* the one row version v of the coefficient layer is stored with
CoefficientRow(v) == [version |-> v, crome_id |-> v, geometry |-> Strip(1, 0, 2)]

\* the job's boundary: one development
RunInput == InputTable(Cardinality({1}), 1, 1, 0)

\* buffer_distance_m, in cells
GCN_BUFFER_CELLS == 2

\* the red-line boundary and its buffer, dissolved: the extent the
\* habitat/pond assessment filters the reference layers by
CombinedExtent(rlb) ==
    LET boundary == UnaryUnion({rlb[i].geometry : i \in 1..Len(rlb)})
    IN  UnaryUnion({boundary, Buffer(boundary, GCN_BUFFER_CELLS)})

\* every layer type of `types` and the coefficient layer loaded in version 1
InitRuns(types) ==
    /\ input_gdf = RunInput
    /\ overlay_gdf = <<>>
    /\ default_value = NULL
    /\ call = NoCall
    /\ spatial_layer = {LayerFeature(t, DEFAULT_VERSION) : t \in types}
    /\ coefficient_layer = {CoefficientRow(DEFAULT_VERSION)}
    /\ temp = NoTemp
    /\ sess = NoSessions
    /\ run = NoRun

\* run_assessment(assessment_type, rlb_gdf, metadata, repository): the
\* worker, which runs one job at a time, instantiates the assessment class;
\* the instance starts with an empty version cache
run_assessment(kind, metadata) ==
    /\ run.pc \in {"none", "done", "failed"}
    /\ run' = [NoRun EXCEPT !.kind = kind, !.pc = "running", !.metadata = metadata]
    /\ UNCHANGED <<spatialVars, layerVars, sessionVars>>

\* NutrientAssessment._resolve_latest_version(layer_type)
_resolve_latest_version(layer_type) ==
    /\ run.kind = "nutrient" /\ run.pc = "running"
    /\ run' = AfterResolve(run, CacheKey(layer_type),
                           StoredVersions(spatial_layer, coefficient_layer,
                                          CacheKey(layer_type)))
    /\ UNCHANGED <<spatialVars, layerVars, sessionVars>>

\* NutrientAssessment._resolve_latest_coeff_version()
_resolve_latest_coeff_version ==
    /\ run.kind = "nutrient" /\ run.pc = "running"
    /\ run' = AfterResolve(run, COEFFICIENT_KEY,
                           StoredVersions(spatial_layer, coefficient_layer,
                                          COEFFICIENT_KEY))
    /\ UNCHANGED <<spatialVars, layerVars, sessionVars>>

\* NutrientAssessment._assign_spatial_features(rlb_gdf)
_assign_spatial_features ==
    /\ run.kind = "nutrient" /\ run.pc = "running"
    /\ run' = AssignSpatialFeatures(run, spatial_layer, coefficient_layer)
    /\ UNCHANGED <<spatialVars, layerVars, sessionVars>>

\* GcnAssessment.run: the risk zones are read, clipped to the extent; the
\* run fails when no zone carries an RZ value
LoadRiskZones ==
    /\ run.kind = "gcn" /\ run.pc = "running"
    /\ LET extent == CombinedExtent(input_gdf)
           risk_zones_clipped == RiskZonesClipped(spatial_layer, extent)
       IN  run' = IF RzMissing(risk_zones_clipped)
                  THEN [run EXCEPT !.pc = "failed", !.raised = "ValueError"]
                  ELSE [run EXCEPT !.pc = "risk_zones",
                                   !.risk_zones = risk_zones_clipped,
                                   !.reads = @ \cup LayerRead(spatial_layer,
                                                              "GCN_RISK_ZONES", extent)]
    /\ UNCHANGED <<spatialVars, layerVars, sessionVars>>

\* GcnAssessment.run: the ponds are read, from the survey file when the
\* job names one (it must have a PANS column), from the national ponds
\* within the extent otherwise
LoadPonds ==
    /\ run.kind = "gcn" /\ run.pc = "risk_zones"
    /\ LET survey == run.metadata.survey_ponds_path
           extent == CombinedExtent(input_gdf)
       IN  run' = IF survey.path # ""
                  THEN IF "PANS" \notin survey.columns
                       THEN [run EXCEPT !.pc = "failed", !.raised = "ValueError"]
                       ELSE [run EXCEPT !.pc = "ponds", !.ponds = SurveyPonds(survey)]
                  ELSE [run EXCEPT !.pc = "ponds",
                                   !.ponds = NationalPonds(spatial_layer, extent),
                                   !.reads = @ \cup LayerRead(spatial_layer,
                                                              "GCN_PONDS", extent)]
    /\ UNCHANGED <<spatialVars, layerVars, sessionVars>>

\* GcnAssessment.run: the ponds are clipped to the extent and split into
\* those of the boundary and those of the buffer
AssignPonds ==
    /\ run.kind = "gcn" /\ run.pc = "ponds"
    /\ LET areas == AssignPondAreas(run.ponds, input_gdf, CombinedExtent(input_gdf))
       IN  run' = [run EXCEPT !.pc = "areas",
                              !.ponds_in_rlb = areas.ponds_in_rlb,
                              !.ponds_in_buffer = areas.ponds_in_buffer]
    /\ UNCHANGED <<spatialVars, layerVars, sessionVars>>

\* GcnAssessment.run: the two tables are computed and returned
GcnReturn ==
    /\ run.kind = "gcn" /\ run.pc = "areas"
    /\ LET habitat_impact ==
               _calculate_habitat_impact(RlbWithBuffer(input_gdf, GCN_BUFFER_CELLS),
                                         run.risk_zones,
                                         run.ponds_in_rlb \cup run.ponds_in_buffer)
           frequency == _calculate_pond_frequency(run.ponds_in_rlb, run.ponds_in_buffer,
                                                  run.risk_zones)
       IN  run' = IF frequency.raised # NULL
                  THEN [run EXCEPT !.pc = "failed", !.raised = frequency.raised]
                  ELSE [run EXCEPT !.pc = "done",
                                   !.pond_zones = frequency.pond_zones,
                                   !.tables = [habitat_impact |-> habitat_impact,
                                               pond_frequency |-> frequency.pond_frequency]]
    /\ UNCHANGED <<spatialVars, layerVars, sessionVars>>

\* load_data: the rows of a layer type (of the coefficient layer) are deleted
DeleteLayer(key) ==
    /\ StoredVersions(spatial_layer, coefficient_layer, key) # {}
    /\ IF key = COEFFICIENT_KEY
       THEN /\ coefficient_layer' = {}
            /\ UNCHANGED spatial_layer
       ELSE /\ spatial_layer' = {t \in spatial_layer : CacheKey(t.layer_type) # key}
            /\ UNCHANGED coefficient_layer
    /\ UNCHANGED <<spatialVars, sessionVars, run>>

\* a version is added: version 1 to an empty layer (load_data), the next
\* version number to a layer that holds versions
AddVersion(key) ==
    LET stored == StoredVersions(spatial_layer, coefficient_layer, key)
        v == IF stored = {} THEN DEFAULT_VERSION ELSE MaxOf(stored) + 1
    IN  /\ v <= MaxVersion
        /\ IF key = COEFFICIENT_KEY
           THEN /\ coefficient_layer' = coefficient_layer \cup {CoefficientRow(v)}
                /\ UNCHANGED spatial_layer
           ELSE /\ spatial_layer' = spatial_layer \cup {LayerFeature(key, v)}
                /\ UNCHANGED coefficient_layer
        /\ UNCHANGED <<spatialVars, sessionVars, run>>

InitNutrient == InitRuns(AssignmentLayerTypes)

NextNutrient ==
    \/ run_assessment("nutrient", NoMetadata)
    \/ \E layer_type \in AssignmentLayerTypes : _resolve_latest_version(layer_type)
    \/ _resolve_latest_coeff_version
    \/ _assign_spatial_features
    \/ \E key \in CacheKeys : DeleteLayer(key)
    \/ \E key \in CacheKeys : AddVersion(key)

SpecNutrient == InitNutrient /\ [][NextNutrient]_vars

InitGcn == InitRuns(GcnLayerTypes)

NextGcn ==
    \/ run_assessment("gcn", NoMetadata)
    \/ LoadRiskZones
    \/ LoadPonds
    \/ AssignPonds
    \/ GcnReturn
    \/ \E layer_type \in GcnLayerTypes : DeleteLayer(CacheKey(layer_type))
    \/ \E layer_type \in GcnLayerTypes : AddVersion(CacheKey(layer_type))

SpecGcn == InitGcn /\ [][NextGcn]_vars

----------------------------------------------------------------------------
(* Habitat/pond runs over boundaries, risk zones and ponds of every layout *)

\* the boundaries of a job: one development, or two that share an edge
PondBoundaries ==
    {<<[id |-> 1, geometry |-> Rect(2, 0, 4, 1)]>>,
     <<[id |-> 1, geometry |-> Rect(2, 0, 3, 1)], [id |-> 2, geometry |-> Rect(3, 0, 4, 1)]>>}

\* where ponds lie: on the boundary, in the buffer, outside the extent
POND_IN_RLB == Rect(2, 0, 3, 1)
POND_IN_BUFFER == Rect(5, 0, 6, 1)
POND_OUTSIDE == Rect(9, 0, 10, 1)

\* stored risk zones: a Red one around the boundary pond, an Amber one
\* around both ponds, and a Green, a White and an unclassified one around
\* the buffer pond
StoredRiskZones ==
    {[layer_type |-> "GCN_RISK_ZONES", version |-> DEFAULT_VERSION, fid |-> 1,
      attr |-> "Red", geometry |-> Rect(2, 0, 3, 1)],
     [layer_type |-> "GCN_RISK_ZONES", version |-> DEFAULT_VERSION, fid |-> 2,
      attr |-> "Amber", geometry |-> Rect(2, 0, 6, 1)],
     [layer_type |-> "GCN_RISK_ZONES", version |-> DEFAULT_VERSION, fid |-> 3,
      attr |-> "Green", geometry |-> Rect(5, 0, 6, 1)],
     [layer_type |-> "GCN_RISK_ZONES", version |-> DEFAULT_VERSION, fid |-> 4,
      attr |-> "White", geometry |-> Rect(5, 0, 6, 1)],
     [layer_type |-> "GCN_RISK_ZONES", version |-> DEFAULT_VERSION, fid |-> 5,
      attr |-> NULL, geometry |-> Rect(5, 0, 6, 1)]}

\* stored national ponds
StoredPonds ==
    {[layer_type |-> "GCN_PONDS", version |-> DEFAULT_VERSION, fid |-> 11,
      attr |-> NULL, geometry |-> POND_IN_RLB],
     [layer_type |-> "GCN_PONDS", version |-> DEFAULT_VERSION, fid |-> 12,
      attr |-> NULL, geometry |-> POND_IN_BUFFER],
     [layer_type |-> "GCN_PONDS", version |-> DEFAULT_VERSION, fid |-> 13,
      attr |-> NULL, geometry |-> POND_OUTSIDE]}

\* survey files: complete; without the PANS column; without the TmpImp
\* column and with two ponds at one place; with a pond whose PANS is null
SurveyFiles ==
    {[path |-> "ponds.shp", columns |-> {"PANS", "TmpImp"},
      rows |-> {[fid |-> 21, PANS |-> "P", TmpImp |-> "T", geometry |-> POND_IN_RLB],
                [fid |-> 22, PANS |-> "A", TmpImp |-> "F", geometry |-> POND_IN_BUFFER],
                [fid |-> 23, PANS |-> "P", TmpImp |-> "F", geometry |-> POND_OUTSIDE]}],
     [path |-> "ponds.shp", columns |-> {"TmpImp"},
      rows |-> {[fid |-> 21, PANS |-> NULL, TmpImp |-> "T", geometry |-> POND_IN_RLB]}],
     [path |-> "ponds.shp", columns |-> {"PANS"},
      rows |-> {[fid |-> 21, PANS |-> "P", TmpImp |-> NULL, geometry |-> POND_IN_RLB],
                [fid |-> 22, PANS |-> "P", TmpImp |-> NULL, geometry |-> POND_IN_RLB]}],
     [path |-> "ponds.shp", columns |-> {"PANS", "TmpImp"},
      rows |-> {[fid |-> 21, PANS |-> NULL, TmpImp |-> "F", geometry |-> POND_IN_RLB],
                [fid |-> 22, PANS |-> "P", TmpImp |-> "F", geometry |-> POND_IN_BUFFER]}],
     [path |-> "ponds.shp", columns |-> {"PANS", "TmpImp"}, rows |-> {}]}

\* the metadata of the jobs: no survey file, or one of the survey files
JobMetadata == {NoMetadata} \cup {[survey_ponds_path |-> f] : f \in SurveyFiles}

InitPonds ==
    /\ input_gdf \in PondBoundaries
    /\ overlay_gdf = <<>>
    /\ default_value = NULL
    /\ call = NoCall
    /\ \E zones \in SUBSET StoredRiskZones, ponds \in SUBSET StoredPonds :
          spatial_layer = zones \cup ponds
    /\ coefficient_layer = {}
    /\ temp = NoTemp
    /\ sess = NoSessions
    /\ run = NoRun

NextPonds ==
    \/ \E metadata \in JobMetadata : run_assessment("gcn", metadata)
    \/ LoadRiskZones
    \/ LoadPonds
    \/ AssignPonds
    \/ GcnReturn

SpecPonds == InitPonds /\ [][NextPonds]_vars

----------------------------------------------------------------------------
(* worker/config.py, worker/calculators/suds.py *)

\* RequiredColumns.all()
RequiredColumnsAll ==
    <<"id", "name", "dwelling_category", "source", "dwellings", "shape_area", "geometry">>

\* SuDsConfig: the default, and other capture and removal percentages whose
\* fractions a binary float holds exactly
SuDsConfigs ==
    {[threshold_dwellings |-> 50, flow_capture_percent |-> c, removal_rate_percent |-> r] :
        c \in {50, 100}, r \in {0, 25, 50}}

\* a quantity is held in thousandths, a reduction factor in ten-thousandths
\* and their product in units of 10^-7
FACTOR_SCALE == 10000
HUNDREDTHS_IN_PRODUCT == 100000

\* SuDsConfig.total_reduction_factor, in ten-thousandths:
\* (flow_capture_percent / 100) * (removal_rate_percent / 100)
total_reduction_factor(suds_config) ==
    suds_config.flow_capture_percent * suds_config.removal_rate_percent

\* np.round(x, 2) of x = n / (100 * unit): the nearest hundredth, a tie
\* going to the even one
NpRound2(n, unit) ==
    LET q == n \div unit
        r == n % unit
    IN  IF 2 * r < unit THEN q
        ELSE IF 2 * r > unit THEN q + 1
        ELSE IF q % 2 = 0 THEN q ELSE q + 1

\* the mitigation taken off the uplift itself, not off its absolute value
PostSudsSigned(uplift, suds_config) ==
    uplift * FACTOR_SCALE - uplift * total_reduction_factor(suds_config)

\* uplift - (abs(uplift) * total_reduction), in units of 10^-7
PostSuds(uplift, suds_config) ==
    uplift * FACTOR_SCALE - Abs(uplift) * total_reduction_factor(suds_config)

\* the mitigation applied only from threshold_dwellings upwards
apply_suds_mitigation_from_threshold(nitrogen_uplift, phosphorus_uplift, dwelling_count, suds_config) ==
    IF dwelling_count >= suds_config.threshold_dwellings
    THEN <<NpRound2(PostSuds(nitrogen_uplift, suds_config), HUNDREDTHS_IN_PRODUCT),
           NpRound2(PostSuds(phosphorus_uplift, suds_config), HUNDREDTHS_IN_PRODUCT)>>
    ELSE <<NpRound2(nitrogen_uplift * FACTOR_SCALE, HUNDREDTHS_IN_PRODUCT),
           NpRound2(phosphorus_uplift * FACTOR_SCALE, HUNDREDTHS_IN_PRODUCT)>>

\* apply_suds_mitigation(nitrogen_uplift, phosphorus_uplift, dwelling_count, suds_config):
\* the pair of mitigated values, in hundredths; dwelling_count is not used
apply_suds_mitigation(nitrogen_uplift, phosphorus_uplift, dwelling_count, suds_config) ==
    <<NpRound2(PostSuds(nitrogen_uplift, suds_config), HUNDREDTHS_IN_PRODUCT),
      NpRound2(PostSuds(phosphorus_uplift, suds_config), HUNDREDTHS_IN_PRODUCT)>>

\* a column value that may be NaN is <<>> or <<v>>; .fillna(0)
FillNaZero(x) == IF x = NaN THEN 0 ELSE x[1]

\* a value in ten-thousandths and its product with a percentage over 100, in
\* units of 10^-6
PERCENT == 100
HUNDREDTHS_IN_TEN_THOUSANDTHS == 100
HUNDREDTHS_IN_MILLIONTHS == 10000

\* the buffer added to the base itself, not to its absolute value
BufferedSigned(land_use_post_suds, wastewater, precautionary_buffer_percent) ==
    LET base == land_use_post_suds + wastewater
    IN  base * PERCENT + base * precautionary_buffer_percent

\* base + abs(base) * (precautionary_buffer_percent / 100) for
\* base = land_use_post_suds + wastewater in ten-thousandths; in units of 10^-6
Buffered(land_use_post_suds, wastewater, precautionary_buffer_percent) ==
    LET base == land_use_post_suds + wastewater
    IN  base * PERCENT + Abs(base) * precautionary_buffer_percent

\* apply_buffer(...): the pair of totals, not rounded
apply_buffer(nitrogen_land_use_post_suds, phosphorus_land_use_post_suds, nitrogen_wastewater, phosphorus_wastewater, precautionary_buffer_percent) ==
    <<Buffered(nitrogen_land_use_post_suds, nitrogen_wastewater,
               precautionary_buffer_percent),
      Buffered(phosphorus_land_use_post_suds, phosphorus_wastewater,
               precautionary_buffer_percent)>>

\* a rate, concentration or load is an exact fraction <<num, den>> in lowest
\* terms; the rounding of binary floating point is not modelled
RECURSIVE Gcd(_, _)
Gcd(a, b) == IF b = 0 THEN a ELSE Gcd(b, a % b)

Rat(n, d) == LET g == Gcd(Abs(n), d) IN <<n \div g, d \div g>>
RatMul(a, b) == Rat(a[1] * b[1], a[2] * b[2])
RatAdd(a, b) == Rat(a[1] * b[2] + b[1] * a[2], a[2] * b[2])

RECURSIVE RatSum(_)
RatSum(vals) == IF vals = <<>> THEN <<0, 1>> ELSE RatAdd(Head(vals), RatSum(Tail(vals)))

\* Series.mean(): the mean of the values that are not NaN, NaN when there
\* is none
SeriesMean(vals) ==
    LET present == SelectSeq(vals, LAMBDA v : v # NaN)
    IN  IF present = <<>> THEN NaN ELSE RatMul(RatSum(present), <<1, Len(present)>>)

\* CONSTANTS.DAYS_PER_YEAR = 365.25
DAYS_PER_YEAR == <<1461, 4>>
\* (conc / CONSTANTS.MILLIGRAMS_PER_KILOGRAM) * 0.9
PermitFraction(conc) == RatMul(conc, <<9, 10000000>>)

\* calculate_wastewater_load(...): the daily water use and the yearly load
\* of one nutrient
calculate_wastewater_load(dwellings, occupancy_rate, water_usage, conc) ==
    LET daily_water_litres == RatMul(<<dwellings, 1>>, RatMul(occupancy_rate, water_usage))
        annual_water_litres == RatMul(daily_water_litres, DAYS_PER_YEAR)
    IN  <<daily_water_litres, RatMul(annual_water_litres, PermitFraction(conc))>>

----------------------------------------------------------------------------
(* worker/assessments/nutrient.py: the stages as methods of an instance *)

\* input_column_map: the legacy column names and what they are renamed to
LegacyColumns == {"Name", "Dwel_Cat", "Source", "Dwellings", "Shape_Area"}

input_column_map(k) ==
    CASE k = "Name" -> "name"
      [] k = "Dwel_Cat" -> "dwelling_category"
      [] k = "Source" -> "source"
      [] k = "Dwellings" -> "dwellings"
      [] k = "Shape_Area" -> "shape_area"

\* the columns after rlb_gdf.rename(columns=columns_to_rename)
RenamedColumns(columns) ==
    LET columns_to_rename == {k \in LegacyColumns \cap columns :
                                 input_column_map(k) \notin columns}
    IN  (columns \ columns_to_rename) \cup {input_column_map(k) : k \in columns_to_rename}

\* a message that names the first missing column only
missing_cols_first(columns) ==
    LET missing == SelectSeq(RequiredColumnsAll, LAMBDA col : col \notin columns)
    IN  IF missing = <<>> THEN <<>> ELSE <<missing[1]>>

\* missing_cols = [col for col in expected_cols if col not in rlb_gdf.columns]
missing_cols(columns) ==
    SelectSeq(RequiredColumnsAll, LAMBDA col : col \notin columns)

\* _validate_and_prepare_input(rlb_gdf) for a table of n rows with the given
\* columns: the ValueError and the columns its message lists, or the table
\* trimmed to the expected columns with rlb_id = 1..n
ValidateAndPrepare(columns, n) ==
    LET renamed == RenamedColumns(columns)
        missing == missing_cols(renamed)
    IN  IF missing # <<>>
        THEN [raised |-> "ValueError", message |-> missing, rows |-> <<>>, columns |-> {}]
        ELSE [raised |-> NULL, message |-> <<>>,
              rows |-> [i \in 1..n |-> [rlb_id |-> i]],
              columns |-> {RequiredColumnsAll[k] : k \in 1..Len(RequiredColumnsAll)}
                            \cup {"rlb_id"}]

\* the name the facility lookup gives the fallback facility
PACKAGE_TREATMENT_PLANT == "Package Treatment Plant default"

\* the filter without its second step
FilterOutsideAllCatchments(rlb_gdf) ==
    SelectSeq(rlb_gdf, LAMBDA r : ~ (r.area_in_nn_catchment_ha = NaN /\ r.wwtw_name = NULL))

\* _filter_out_of_scope(rlb_gdf): the rows outside all catchments are
\* removed, then the fallback facility's rows outside the NN catchment
FilterOutOfScope(rlb_gdf) ==
    LET kept == SelectSeq(rlb_gdf, LAMBDA r :
                    ~ (r.area_in_nn_catchment_ha = NaN /\ r.wwtw_name = NULL))
    IN  SelectSeq(kept, LAMBDA r :
            ~ (r.area_in_nn_catchment_ha = NaN /\ r.wwtw_name = PACKAGE_TREATMENT_PLANT))

\* the column names an input file may carry
InputColumnNames ==
    {RequiredColumnsAll[k] : k \in 1..Len(RequiredColumnsAll)} \cup LegacyColumns

\* uplifts, in thousandths of a kilogram per year
Uplifts == {-30000, -22500, -125, 0, 125, 4500, 22500}

\* dwelling counts below, at and above threshold_dwellings
DwellingCounts == {1, 49, 50, 100}

\* the scope columns of a development: the catchment area (NaN when the
\* development overlaps no catchment) and the facility name
ScopeCases ==
    {[area_in_nn_catchment_ha |-> a, wwtw_name |-> w] :
        a \in {NaN, <<1>>}, w \in {NULL, PACKAGE_TREATMENT_PLANT, "Anytown WwTW"}}

\* the tables of 1..MaxSmallRows developments the filter meets
ScopeTables ==
    UNION {{[i \in 1..n |-> [rlb_id |-> i,
                             area_in_nn_catchment_ha |-> f[i].area_in_nn_catchment_ha,
                             wwtw_name |-> f[i].wwtw_name]] :
               f \in [1..n -> ScopeCases]} : n \in 1..MaxSmallRows}

\* DataFrame.round(2) of a column held in units of 1 / (100 * unit); a NaN
\* stays NaN
RoundColumn(x, unit) == IF x = NaN THEN NaN ELSE <<NpRound2(x[1], unit)>>

\* _calculate_totals(rlb_gdf) for one row: the totals come from the columns
\* as they are before the batch rounding, then the load, area and total
\* columns are rounded to 2 decimals.  The land-use columns are in
\* hundredths, the loads and the catchment area in ten-thousandths and
\* shape_area in square metres; every rounded column is in hundredths.
TotalsRow(r, precautionary_buffer_percent) ==
    LET totals == apply_buffer(
                      FillNaZero(r.n_lu_post_suds) * HUNDREDTHS_IN_TEN_THOUSANDTHS,
                      FillNaZero(r.p_lu_post_suds) * HUNDREDTHS_IN_TEN_THOUSANDTHS,
                      FillNaZero(r.n_wwtw_perm), FillNaZero(r.p_wwtw_perm),
                      precautionary_buffer_percent)
    IN  [rlb_id |-> r.rlb_id,
         shape_area |-> r.shape_area,
         n_lu_post_suds |-> r.n_lu_post_suds,
         p_lu_post_suds |-> r.p_lu_post_suds,
         area_in_nn_catchment_ha |->
             RoundColumn(r.area_in_nn_catchment_ha, HUNDREDTHS_IN_TEN_THOUSANDTHS),
         n_wwtw_temp |-> RoundColumn(r.n_wwtw_temp, HUNDREDTHS_IN_TEN_THOUSANDTHS),
         p_wwtw_temp |-> RoundColumn(r.p_wwtw_temp, HUNDREDTHS_IN_TEN_THOUSANDTHS),
         n_wwtw_perm |-> RoundColumn(r.n_wwtw_perm, HUNDREDTHS_IN_TEN_THOUSANDTHS),
         p_wwtw_perm |-> RoundColumn(r.p_wwtw_perm, HUNDREDTHS_IN_TEN_THOUSANDTHS),
         n_total |-> RoundColumn(<<totals[1]>>, HUNDREDTHS_IN_MILLIONTHS),
         p_total |-> RoundColumn(<<totals[2]>>, HUNDREDTHS_IN_MILLIONTHS),
         dev_area_ha |-> NpRound2(r.shape_area, SQM_PER_HECTARE \div 100)]

\* _calculate_totals(rlb_gdf) under a configured buffer percentage
CalculateTotals(rlb_gdf, precautionary_buffer_percent) ==
    [k \in 1..Len(rlb_gdf) |-> TotalsRow(rlb_gdf[k], precautionary_buffer_percent)]

\* the nitrogen columns of a development before the totals: the mitigated
\* land-use impact and the wastewater loads
NitrogenCases ==
    {[n_lu_post_suds |-> lu, n_wwtw_perm |-> ww] :
        lu \in {NaN, <<-3750>>, <<1688>>}, ww \in {NaN, <<1250>>, <<867834>>}}

\* the phosphorus columns of a development before the totals
PhosphorusCases ==
    {[p_lu_post_suds |-> <<-1250>>, p_wwtw_perm |-> <<96500>>],
     [p_lu_post_suds |-> <<50>>, p_wwtw_perm |-> NaN]}

\* the tables of 1..MaxSmallRows developments the totals stage meets
TotalsTables ==
    UNION {{[i \in 1..n |->
                [rlb_id |-> i, shape_area |-> 12500,
                 area_in_nn_catchment_ha |->
                     IF N[i].n_lu_post_suds = NaN THEN NaN ELSE <<12346>>,
                 n_lu_post_suds |-> N[i].n_lu_post_suds,
                 p_lu_post_suds |-> P[i].p_lu_post_suds,
                 n_wwtw_temp |-> N[i].n_wwtw_perm,
                 p_wwtw_temp |-> P[i].p_wwtw_perm,
                 n_wwtw_perm |-> N[i].n_wwtw_perm,
                 p_wwtw_perm |-> P[i].p_wwtw_perm]] :
               N \in [1..n -> NitrogenCases], P \in [1..n -> PhosphorusCases]} :
           n \in 1..MaxSmallRows}

\* precautionary_buffer_percent: the default and another setting
BufferPercents == {20, 25}

\* NutrientAssessment._calculate_totals(rlb_gdf)
_calculate_totals(rlb_gdf, precautionary_buffer_percent) ==
    /\ call.fn = "none"
    /\ call' = [fn |-> "_calculate_totals",
                args |-> [rlb_gdf |-> rlb_gdf,
                          precautionary_buffer_percent |-> precautionary_buffer_percent],
                result |-> CalculateTotals(rlb_gdf, precautionary_buffer_percent)]
    /\ UNCHANGED <<input_gdf, overlay_gdf, default_value>>
    /\ UNCHANGED <<layerVars, sessionVars, run>>

\* frame.drop_duplicates(subset=[key]): the first row of every key is kept
RECURSIVE DropDuplicates(_, _)
DropDuplicates(rows, key) ==
    IF rows = <<>> THEN <<>>
    ELSE LET rest == DropDuplicates(SubSeq(rows, 1, Len(rows) - 1), key)
             last == rows[Len(rows)]
         IN  IF \E j \in 1..Len(rest) : rest[j][key] = last[key]
             THEN rest
             ELSE Append(rest, last)

\* left.merge(right, how="left", left_on=..., right_on=...): a left row is
\* paired with every right row of its key, or once with the null columns
MergeLeft(left, right, left_on, right_on, nulls) ==
    LET rowsOf(l) ==
            LET matches == SelectSeq(right, LAMBDA r : r[right_on] = l[left_on])
            IN  IF matches = <<>>
                THEN <<nulls @@ l>>
                ELSE [k \in 1..Len(matches) |-> matches[k] @@ l]
    IN  Concat([i \in 1..Len(left) |-> rowsOf(left[i])])

\* the mean taken over the whole table instead of the rows of the facility
FillTableMean(rows, col) ==
    LET mean == SeriesMean([j \in 1..Len(rows) |-> rows[j][col]])
    IN  [k \in 1..Len(rows) |-> IF rows[k][col] = NaN THEN mean ELSE rows[k][col]]

\* groupby("majority_wwtw_id")[col].transform(lambda x: x.fillna(x.mean())):
\* the column after the fill
FillGroupMean(rows, col) ==
    LET group(k) == SelectSeq(rows, LAMBDA r : r.majority_wwtw_id = rows[k].majority_wwtw_id)
        mean(k) == SeriesMean([j \in 1..Len(group(k)) |-> group(k)[j][col]])
    IN  [k \in 1..Len(rows) |-> IF rows[k][col] = NaN THEN mean(k) ELSE rows[k][col]]

\* the Int64 value standing for <NA>
NA_CODE == 0

\* pd.to_numeric(wwtw_code, errors="coerce").astype("Int64")
ToNumericCode(code) ==
    CASE code = "123" -> 123
      [] code = "141" -> 141
      [] OTHER -> NA_CODE

\* the columns a development gets when no row of a lookup matches it
NoRates == [occupancy_rate |-> NaN, water_usage_L_per_person_day |-> NaN]
NoWwtw ==
    [wwtw_code |-> NA_CODE, wwtw_name |-> NULL, wwtw_subcatchment |-> NULL,
     nitrogen_conc_2025_2030_mg_L |-> NaN, nitrogen_conc_2030_onwards_mg_L |-> NaN,
     phosphorus_conc_2025_2030_mg_L |-> NaN, phosphorus_conc_2030_onwards_mg_L |-> NaN]

\* .fillna(0) of an exact number
FillNaRat(x) == IF x = NaN THEN <<0, 1>> ELSE x

\* _calculate_wastewater_impacts(rlb_gdf) with the two lookup tables the
\* store returns
CalculateWastewater(rlb_gdf, rates_data, wwtw_data) ==
    LET rates_lookup == DropDuplicates(rates_data, "nn_catchment")
        with_rates == MergeLeft(rlb_gdf, rates_lookup, "nn_catchment", "nn_catchment", NoRates)
        occupancy == FillGroupMean(with_rates, "occupancy_rate")
        usage == FillGroupMean(with_rates, "water_usage_L_per_person_day")
        filled == [k \in 1..Len(with_rates) |->
                      [with_rates[k] EXCEPT !.occupancy_rate = occupancy[k],
                                            !.water_usage_L_per_person_day = usage[k]]]
        daily == [k \in 1..Len(filled) |->
                     [daily_water_usage_L |->
                          IF filled[k].occupancy_rate = NaN
                             \/ filled[k].water_usage_L_per_person_day = NaN
                          THEN NaN
                          ELSE calculate_wastewater_load(
                                   filled[k].dwellings, filled[k].occupancy_rate,
                                   filled[k].water_usage_L_per_person_day, <<0, 1>>)[1]]
                     @@ filled[k]]
        wwtw_lookup == DropDuplicates(
                           [j \in 1..Len(wwtw_data) |->
                               [wwtw_data[j] EXCEPT !.wwtw_code = ToNumericCode(@)]],
                           "wwtw_code")
        with_wwtw == MergeLeft(daily, wwtw_lookup, "majority_wwtw_id", "wwtw_code", NoWwtw)
        load(r, conc) ==
            calculate_wastewater_load(r.dwellings, FillNaRat(r.occupancy_rate),
                                      FillNaRat(r.water_usage_L_per_person_day),
                                      FillNaRat(conc))[2]
        row(r) ==
            LET sub == IF r.majority_wwtw_id = FALLBACK_WWTW_ID /\ r.wwtw_subcatchment = NULL
                       THEN r.majority_opcat_name
                       ELSE r.wwtw_subcatchment
                kept == [f \in DOMAIN r \ {"wwtw_code"} |-> r[f]]
            IN  [n_wwtw_temp |-> load(r, r.nitrogen_conc_2025_2030_mg_L),
                 p_wwtw_temp |-> load(r, r.phosphorus_conc_2025_2030_mg_L),
                 n_wwtw_perm |-> load(r, r.nitrogen_conc_2030_onwards_mg_L),
                 p_wwtw_perm |-> load(r, r.phosphorus_conc_2030_onwards_mg_L)]
                @@ [kept EXCEPT !.wwtw_subcatchment = sub]
    IN  [k \in 1..Len(with_wwtw) |-> row(with_wwtw[k])]

\* the data of the rates lookup: one with a catchment listed twice, one that
\* has no usage figure
RatesLookups ==
    {<<[nn_catchment |-> "Solent", occupancy_rate |-> <<12, 5>>,
        water_usage_L_per_person_day |-> <<150, 1>>],
       [nn_catchment |-> "Avon", occupancy_rate |-> <<2, 1>>,
        water_usage_L_per_person_day |-> <<110, 1>>],
       [nn_catchment |-> "Solent", occupancy_rate |-> <<3, 1>>,
        water_usage_L_per_person_day |-> <<120, 1>>]>>,
     <<[nn_catchment |-> "Solent", occupancy_rate |-> <<12, 5>>,
        water_usage_L_per_person_day |-> NaN]>>}

\* the data of the facility lookup: a facility listed twice, a code that is
\* not a number and the fallback facility without a sub-catchment
WwtwLookup ==
    <<[wwtw_code |-> "123", wwtw_name |-> "Test WwTW",
       wwtw_subcatchment |-> "Test Subcatchment",
       nitrogen_conc_2025_2030_mg_L |-> <<10, 1>>,
       nitrogen_conc_2030_onwards_mg_L |-> <<8, 1>>,
       phosphorus_conc_2025_2030_mg_L |-> <<1, 1>>,
       phosphorus_conc_2030_onwards_mg_L |-> <<4, 5>>],
      [wwtw_code |-> "n/a", wwtw_name |-> "Closed WwTW",
       wwtw_subcatchment |-> NULL,
       nitrogen_conc_2025_2030_mg_L |-> NaN,
       nitrogen_conc_2030_onwards_mg_L |-> NaN,
       phosphorus_conc_2025_2030_mg_L |-> NaN,
       phosphorus_conc_2030_onwards_mg_L |-> NaN],
      [wwtw_code |-> "123", wwtw_name |-> "Test WwTW (old)",
       wwtw_subcatchment |-> "Old Subcatchment",
       nitrogen_conc_2025_2030_mg_L |-> <<20, 1>>,
       nitrogen_conc_2030_onwards_mg_L |-> <<20, 1>>,
       phosphorus_conc_2025_2030_mg_L |-> <<2, 1>>,
       phosphorus_conc_2030_onwards_mg_L |-> <<2, 1>>],
      [wwtw_code |-> "141", wwtw_name |-> PACKAGE_TREATMENT_PLANT,
       wwtw_subcatchment |-> NULL,
       nitrogen_conc_2025_2030_mg_L |-> <<25, 1>>,
       nitrogen_conc_2030_onwards_mg_L |-> <<25, 1>>,
       phosphorus_conc_2025_2030_mg_L |-> <<5, 1>>,
       phosphorus_conc_2030_onwards_mg_L |-> <<5, 1>>]>>

\* the catchment and the facility of a development before the wastewater stage
WastewaterCases ==
    {[nn_catchment |-> c, majority_wwtw_id |-> w] :
        c \in {NULL, "Solent", "Avon"}, w \in {123, FALLBACK_WWTW_ID}}

\* the tables of 1..MaxRateRows developments the wastewater stage meets
WastewaterTables ==
    UNION {{[i \in 1..n |->
                [rlb_id |-> i, dwellings |-> 10 * i,
                 nn_catchment |-> f[i].nn_catchment,
                 majority_wwtw_id |-> f[i].majority_wwtw_id,
                 majority_opcat_name |-> "Test Opcat"]] :
               f \in [1..n -> WastewaterCases]} : n \in 1..MaxRateRows}

\* NutrientAssessment._calculate_wastewater_impacts(rlb_gdf)
_calculate_wastewater_impacts(rlb_gdf, rates_data) ==
    /\ call.fn = "none"
    /\ call' = [fn |-> "_calculate_wastewater_impacts",
                args |-> [rlb_gdf |-> rlb_gdf, rates_data |-> rates_data,
                          wwtw_data |-> WwtwLookup],
                result |-> CalculateWastewater(rlb_gdf, rates_data, WwtwLookup)]
    /\ UNCHANGED <<input_gdf, overlay_gdf, default_value>>
    /\ UNCHANGED <<layerVars, sessionVars, run>>

\* ASSESSMENT_TYPES: the registered assessment types
ASSESSMENT_TYPES == {"gcn", "nutrient"}

\* isinstance(value, pd.DataFrame | gpd.GeoDataFrame)
IsTable(type) == type \in {"DataFrame", "GeoDataFrame"}

\* the runner letting the exception of run() through as it is
run_assessment_unwrapped(assessment_type, behaviour) ==
    LET bad == {k \in 1..Len(behaviour.value.items) : ~ IsTable(behaviour.value.items[k][2])}
    IN  IF assessment_type \notin ASSESSMENT_TYPES
        THEN [raised |-> "KeyError", message |-> "not supported", dataframes |-> <<>>]
        ELSE IF behaviour.init # "ok"
        THEN [raised |-> "ValueError", message |-> "Failed to instantiate",
              dataframes |-> <<>>]
        ELSE IF behaviour.raises # NULL
        THEN [raised |-> behaviour.raises, message |-> "raised by run", dataframes |-> <<>>]
        ELSE IF behaviour.value.type # "dict"
        THEN [raised |-> "ValueError", message |-> "must return a dict", dataframes |-> <<>>]
        ELSE IF bad # {}
        THEN [raised |-> "ValueError",
              message |-> behaviour.value.items[MinOf(bad)][1], dataframes |-> <<>>]
        ELSE [raised |-> NULL, message |-> "", dataframes |-> behaviour.value.items]

\* run_assessment(assessment_type, rlb_gdf, metadata, repository) for a class
\* whose constructor and run() behave as given: the exception raised and its
\* message (the offending key for an invalid value), or the dict returned,
\* as the sequence of its items
RunnerResult(assessment_type, behaviour) ==
    LET bad == {k \in 1..Len(behaviour.value.items) : ~ IsTable(behaviour.value.items[k][2])}
    IN  IF assessment_type \notin ASSESSMENT_TYPES
        THEN [raised |-> "KeyError", message |-> "not supported", dataframes |-> <<>>]
        ELSE IF behaviour.init # "ok"
        THEN [raised |-> "ValueError", message |-> "Failed to instantiate",
              dataframes |-> <<>>]
        ELSE IF behaviour.raises # NULL
        THEN [raised |-> "ValueError", message |-> "execution failed", dataframes |-> <<>>]
        ELSE IF behaviour.value.type # "dict"
        THEN [raised |-> "ValueError", message |-> "must return a dict", dataframes |-> <<>>]
        ELSE IF bad # {}
        THEN [raised |-> "ValueError",
              message |-> behaviour.value.items[MinOf(bad)][1], dataframes |-> <<>>]
        ELSE [raised |-> NULL, message |-> "", dataframes |-> behaviour.value.items]

\* what run() may return: something that is not a dict, or a dict of up to
\* two items whose values are tables or not
ReturnValues ==
    {[type |-> t, items |-> <<>>] : t \in {"dict", "str", "NoneType", "DataFrame"}}
    \cup {[type |-> "dict", items |-> <<<<"results", t>>>>] :
             t \in {"DataFrame", "GeoDataFrame", "str"}}
    \cup {[type |-> "dict", items |-> <<<<"results", t>>, <<"summary", u>>>>] :
             t \in {"DataFrame", "GeoDataFrame", "str"},
             u \in {"DataFrame", "GeoDataFrame", "str"}}

\* how an assessment class may behave: the constructor raises or not, run()
\* raises an exception or returns a value
ClassBehaviours ==
    {[init |-> i, raises |-> e, value |-> [type |-> "NoneType", items |-> <<>>]] :
        i \in {"ok", "raises"}, e \in {"ValueError", "KeyError", "AttributeError"}}
    \cup {[init |-> i, raises |-> NULL, value |-> v] :
             i \in {"ok", "raises"}, v \in ReturnValues}

\* run_assessment(...) called with an assessment type
RunnerCall(assessment_type, behaviour) ==
    /\ call.fn = "none"
    /\ call' = [fn |-> "run_assessment",
                args |-> [assessment_type |-> assessment_type, behaviour |-> behaviour],
                result |-> RunnerResult(assessment_type, behaviour)]
    /\ UNCHANGED <<input_gdf, overlay_gdf, default_value>>
    /\ UNCHANGED <<layerVars, sessionVars, run>>

\* NutrientAssessment._validate_and_prepare_input(rlb_gdf)
_validate_and_prepare_input(columns, n) ==
    /\ call.fn = "none"
    /\ call' = [fn |-> "_validate_and_prepare_input",
                args |-> [columns |-> columns, n |-> n],
                result |-> ValidateAndPrepare(columns, n)]
    /\ UNCHANGED <<input_gdf, overlay_gdf, default_value>>
    /\ UNCHANGED <<layerVars, sessionVars, run>>

\* apply_suds_mitigation(...) as _calculate_land_use_impacts calls it
ApplySudsMitigation(nitrogen_uplift, phosphorus_uplift, dwelling_count, suds_config) ==
    /\ call.fn = "none"
    /\ call' = [fn |-> "apply_suds_mitigation",
                args |-> [nitrogen_uplift |-> nitrogen_uplift,
                          phosphorus_uplift |-> phosphorus_uplift,
                          dwelling_count |-> dwelling_count,
                          suds_config |-> suds_config],
                result |-> apply_suds_mitigation(nitrogen_uplift, phosphorus_uplift,
                                                 dwelling_count, suds_config)]
    /\ UNCHANGED <<input_gdf, overlay_gdf, default_value>>
    /\ UNCHANGED <<layerVars, sessionVars, run>>

\* NutrientAssessment._filter_out_of_scope(rlb_gdf)
_filter_out_of_scope(rlb_gdf) ==
    /\ call.fn = "none"
    /\ call' = [fn |-> "_filter_out_of_scope", args |-> [rlb_gdf |-> rlb_gdf],
                result |-> FilterOutOfScope(rlb_gdf)]
    /\ UNCHANGED <<input_gdf, overlay_gdf, default_value>>
    /\ UNCHANGED <<layerVars, sessionVars, run>>

InitStages ==
    /\ input_gdf = <<>>
    /\ overlay_gdf = <<>>
    /\ default_value = NULL
    /\ call = NoCall
    /\ spatial_layer = {}
    /\ coefficient_layer = {}
    /\ temp = NoTemp
    /\ sess = NoSessions
    /\ run = NoRun

NextStages ==
    \/ \E columns \in SUBSET InputColumnNames, n \in 1..MaxSmallRows :
          _validate_and_prepare_input(columns, n)
    \/ \E nitrogen_uplift \in Uplifts, phosphorus_uplift \in Uplifts,
          dwelling_count \in DwellingCounts, suds_config \in SuDsConfigs :
          ApplySudsMitigation(nitrogen_uplift, phosphorus_uplift, dwelling_count, suds_config)
    \/ \E assessment_type \in ASSESSMENT_TYPES \cup {"nonexistent"},
          behaviour \in ClassBehaviours :
          RunnerCall(assessment_type, behaviour)
    \/ \E rlb_gdf \in WastewaterTables, rates_data \in RatesLookups :
          _calculate_wastewater_impacts(rlb_gdf, rates_data)
    \/ \E rlb_gdf \in TotalsTables, precautionary_buffer_percent \in BufferPercents :
          _calculate_totals(rlb_gdf, precautionary_buffer_percent)
    \/ \E rlb_gdf \in ScopeTables : _filter_out_of_scope(rlb_gdf)

SpecStages == InitStages /\ [][NextStages]_vars

----------------------------------------------------------------------------
(* The queue consumer: worker/main.py, worker/orchestrator.py, worker/aws/sqs.py *)

\* the columns _inject_job_data writes into the table read from the file
InjectedColumns == {"id", "name", "dwelling_category", "source", "dwellings", "area_m2"}

\* JobOrchestrator._inject_job_data(gdf, job): the columns of the table
InjectJobData(columns) == columns \cup InjectedColumns

\* NutrientAssessment.run() on a table with the given columns, as the runner
\* sees it: the input validation raises, or the pipeline goes on to the
\* assignment stage and to the rest
NutrientRun(columns) ==
    LET validated == ValidateAndPrepare(columns, 1)
    IN  IF validated.raised # NULL
        THEN [init |-> "ok", raises |-> validated.raised,
              value |-> [type |-> "NoneType", items |-> <<>>]]
        ELSE IF "batch_majority_overlap_postgis" \notin RepositoryMethods
        THEN [init |-> "ok", raises |-> "AttributeError",
              value |-> [type |-> "NoneType", items |-> <<>>]]
        ELSE [init |-> "ok", raises |-> NULL,
              value |-> [type |-> "dict", items |-> <<<<"impact_summary", "DataFrame">>>>]]

\* what process_job meets outside the worker: the download raises or not,
\* the geometry validator reports errors or not, and what a habitat/pond run
\* does against the store
Environments ==
    {[download |-> d, validation_errors |-> v, gcn |-> g, results |-> n] :
        d \in {"ok", "raises"}, v \in BOOLEAN,
        g \in {[init |-> "ok", raises |-> "ValueError",
                value |-> [type |-> "NoneType", items |-> <<>>]],
               [init |-> "ok", raises |-> NULL,
                value |-> [type |-> "dict",
                           items |-> <<<<"habitat_impact", "DataFrame">>,
                                       <<"pond_frequency", "DataFrame">>>>]]},
        n \in {0, 1}}

\* JobOrchestrator.process_job(job, assessment_type): whether the input
\* validation of the pipeline was reached and what it raised, and whether the
\* job completed or ended in the empty list that stands for a failure
ProcessJob(job, env) ==
    LET columns == InjectJobData(job.file_columns)
        behaviour == IF job.assessment_type = "nutrient" THEN NutrientRun(columns)
                     ELSE env.gcn
        ran == RunnerResult(job.assessment_type, behaviour)
        validation == IF job.assessment_type = "nutrient"
                      THEN ValidateAndPrepare(columns, 1)
                      ELSE [raised |-> NULL, message |-> <<>>]
    IN  IF env.download = "raises" \/ env.validation_errors
        THEN [outcome |-> "failed", validated |-> "none", missing |-> <<>>]
        ELSE [outcome |-> IF ran.raised # NULL \/ env.results = 0
                          THEN "failed" ELSE "completed",
              validated |-> IF job.assessment_type # "nutrient" THEN "none"
                            ELSE IF validation.raised = NULL THEN "passed"
                            ELSE validation.raised,
              missing |-> validation.message]

\* the messages on the queue: a nutrient job and a habitat/pond job whose
\* files hold geometry only, a message that is not a job, and a nutrient job
\* whose file carries the legacy attribute columns
Messages == 1..4

JobOf(m) ==
    CASE m = 1 -> [valid |-> TRUE, assessment_type |-> "nutrient",
                   file_columns |-> {"geometry"}]
      [] m = 2 -> [valid |-> TRUE, assessment_type |-> "gcn",
                   file_columns |-> {"geometry"}]
      [] m = 3 -> [valid |-> FALSE, assessment_type |-> NULL, file_columns |-> {}]
      [] m = 4 -> [valid |-> TRUE, assessment_type |-> "nutrient",
                   file_columns |-> {"geometry", "Shape_Area"}]

\* max_messages: the most messages one receive_message call returns (the
\* setting allows 1 to 10)
BatchSize == 2

\* the consumer before its first poll
NewConsumer ==
    [fn |-> "SqsConsumer.run", running |-> TRUE, pc |-> "poll",
     queue |-> [m \in Messages |-> "visible"],
     results |-> <<>>,
     processed |-> [m \in Messages |-> "none"],
     validated |-> [m \in Messages |-> "none"],
     missing |-> [m \in Messages |-> <<>>],
     deleted_as |-> [m \in Messages |-> "none"]]

\* SQSClient.receive_messages(): the messages returned become invisible; the
\* ones that are not jobs are logged and left, the others are handed over in
\* the order received
receive_messages(batch) ==
    /\ call.pc = "poll" /\ call.running
    /\ batch # {} /\ Cardinality(batch) <= BatchSize
    /\ \A m \in batch : call.queue[m] = "visible"
    /\ LET results == SortedSeq({m \in batch : JobOf(m).valid})
       IN  call' = [call EXCEPT
                       !.queue = [m \in Messages |->
                                     IF m \in batch THEN "inflight" ELSE call.queue[m]],
                       !.results = results,
                       !.pc = IF results = <<>> THEN "poll" ELSE "process"]
    /\ UNCHANGED <<input_gdf, overlay_gdf, default_value>>
    /\ UNCHANGED <<layerVars, sessionVars, run>>

\* self.orchestrator.process_job(job_message, job_message.assessment_type):
\* it returns whatever happened
process_job(env) ==
    /\ call.pc = "process"
    /\ LET m == Head(call.results)
           done == ProcessJob(JobOf(m), env)
       IN  call' = [call EXCEPT !.processed[m] = done.outcome,
                                !.validated[m] = done.validated,
                                !.missing[m] = done.missing,
                                !.pc = "delete"]
    /\ UNCHANGED <<input_gdf, overlay_gdf, default_value>>
    /\ UNCHANGED <<layerVars, sessionVars, run>>

\* self.sqs_client.delete_message(receipt_handle): the message is deleted
\* and the loop goes on with the batch, or the client raises ClientError,
\* which the loop catches, dropping the rest of the batch
delete_message(ok) ==
    /\ call.pc = "delete"
    /\ LET m == Head(call.results)
           rest == IF ok THEN Tail(call.results) ELSE <<>>
       IN  call' = [call EXCEPT
                       !.queue[m] = IF ok THEN "deleted" ELSE @,
                       !.deleted_as[m] = IF ok THEN call.processed[m] ELSE @,
                       !.results = rest,
                       !.pc = IF rest # <<>> THEN "process"
                              ELSE IF call.running THEN "poll" ELSE "stopped"]
    /\ UNCHANGED <<input_gdf, overlay_gdf, default_value>>
    /\ UNCHANGED <<layerVars, sessionVars, run>>

\* the visibility timeout of a received message expires
VisibilityTimeout(m) ==
    /\ call.queue[m] = "inflight"
    /\ call' = [call EXCEPT !.queue[m] = "visible"]
    /\ UNCHANGED <<input_gdf, overlay_gdf, default_value>>
    /\ UNCHANGED <<layerVars, sessionVars, run>>

\* SqsConsumer._handle_sigterm: the loop ends after the batch in hand
_handle_sigterm ==
    /\ call.running
    /\ call' = [call EXCEPT !.running = FALSE,
                            !.pc = IF call.pc = "poll" THEN "stopped" ELSE @]
    /\ UNCHANGED <<input_gdf, overlay_gdf, default_value>>
    /\ UNCHANGED <<layerVars, sessionVars, run>>

InitConsumer ==
    /\ input_gdf = <<>>
    /\ overlay_gdf = <<>>
    /\ default_value = NULL
    /\ call = NewConsumer
    /\ spatial_layer = {}
    /\ coefficient_layer = {}
    /\ temp = NoTemp
    /\ sess = NoSessions
    /\ run = NoRun

NextConsumer ==
    \/ \E batch \in SUBSET Messages : receive_messages(batch)
    \/ \E env \in Environments : process_job(env)
    \/ \E ok \in BOOLEAN : delete_message(ok)
    \/ \E m \in Messages : VisibilityTimeout(m)
    \/ _handle_sigterm

SpecConsumer == InitConsumer /\ [][NextConsumer]_vars

----------------------------------------------------------------------------
(* Properties of the assignment engine *)

\* the largest intersection area of an input geometry with an overlay feature
MaxOverlap(g, overlay) ==
    MaxOf({Area(Intersection(g, overlay[j].geometry)) : j \in 1..Len(overlay)})

\* the attributes of the overlay features holding the largest intersection area
MaxOverlapAttrs(g, overlay) ==
    {overlay[j].attr : j \in {k \in 1..Len(overlay) :
        Area(Intersection(g, overlay[k].geometry)) = MaxOverlap(g, overlay)}}

\* the last call ran _majority_overlap_sequential over the whole input
SequentialDone == call.fn = "majority_overlap" /\ call.path = "sequential"

\* exactly one result row per input id
OneRowPerId ==
    /\ Len(call.rows) = Len(input_gdf)
    /\ \A i \in 1..Len(input_gdf) :
          Cardinality({k \in 1..Len(call.rows) : call.rows[k].id = input_gdf[i].id}) = 1

\* the value the result gives to an id held by exactly one row
ValueOf(id) == call.rows[CHOOSE k \in 1..Len(call.rows) : call.rows[k].id = id].value

C2_ParallelEqualsSequential ==
    (call.fn = "majority_overlap" /\ call.path = "parallel") =>
        call.rows = _majority_overlap_sequential(input_gdf, overlay_gdf, default_value)

\* result.geometry.area.sum()
TotalArea(rows) == SumRange([k \in 1..Len(rows) |-> Area(rows[k].geometry)], 1, Len(rows))

\* the exceptions C4 names
DeniedErrors == {"NotImplementedError", "PermissionError", "OSError"}

\* C4: when creating the process pool raises NotImplementedError,
\* PermissionError or OSError, majority_overlap and
\* spatial_difference_with_precision raise nothing and return the result of
\* sequential execution over the whole input.
C4_SilentFallback ==
    /\ (call.fn = "majority_overlap" /\ call.pool \in DeniedErrors) =>
          /\ call.raised = NULL
          /\ call.rows = _majority_overlap_sequential(input_gdf, overlay_gdf, default_value)
    /\ (call.fn = "spatial_difference_with_precision" /\ call.pool \in DeniedErrors) =>
          /\ call.raised = NULL
          /\ call.rows = apply_precision(
                            OverlayDifference(apply_precision(input_gdf, call.grid_size),
                                              apply_precision(overlay_gdf, call.grid_size)),
                            call.grid_size)

\* C4 witness: the pool was denied on the parallel path of a call whose
\* sequential result is not empty
C4_Witness ==
    /\ call.fn \in {"majority_overlap", "spatial_difference_with_precision"}
    /\ call.pool = "PermissionError"
    /\ call.path = "fallback"
    /\ Len(call.rows) > 0

\* C5: the parallel form of the difference gives the same total output
\* area as the sequential form on the same operands.
C5_DifferenceArea ==
    (call.fn = "spatial_difference_with_precision" /\ call.path = "parallel") =>
        TotalArea(call.rows) =
            TotalArea(apply_precision(
                          OverlayDifference(apply_precision(input_gdf, call.grid_size),
                                            apply_precision(overlay_gdf, call.grid_size)),
                          call.grid_size))

\* C5 witness: a parallel difference that leaves some area
C5_Witness ==
    /\ call.fn = "spatial_difference_with_precision"
    /\ call.path = "parallel"
    /\ TotalArea(call.rows) > 0
    /\ Len(call.rows) < Len(input_gdf)

\* the operations that can produce new geometry
Producing == {"buffer", "intersection", "difference", "unary_union"}

\* the calls C6 is about
OverlayCalls == {"buffer_with_dissolve", "spatial_join_intersect",
                 "spatial_difference_with_precision"}

SnappedBefore(ops, k) == k > 1 /\ ops[k - 1] = "apply_precision"
SnappedAfter(ops, k) == k < Len(ops) /\ ops[k + 1] = "apply_precision"

\* every geometry the call returned lies on the precision grid
ResultOnGrid ==
    \A k \in 1..Len(call.rows) :
        Snap(call.rows[k].geometry, call.grid_size) = call.rows[k].geometry

----------------------------------------------------------------------------
(* Remote assignment and staging tables *)

\* call c is a remote assignment that has returned its table
RemoteReturned(c) ==
    sess[c].fn = "majority_overlap_postgis" /\ sess[c].pc = "returned"

\* C3: for identical inputs, overlay features and default, the batched
\* remote assignment and the local assignment give every input id the same
\* value.
C3_RemoteEqualsLocal ==
    \A c \in Calls :
        RemoteReturned(c) =>
            LET local == _majority_overlap_sequential(input_gdf, overlay_gdf, default_value)
            IN  \A r \in sess[c].rows :
                   \A k \in 1..Len(local) : local[k].id = r.id => local[k].value = r.value

\* the temporary tables that exist in the schema of connection conn
TablesOf(conn) == {t \in TempTables : temp[conn][t].exists}

\* the calls whose session holds a connection, their transaction being open
InTransaction == {c \in Calls : sess[c].conn # 0}

\* C7: a staging table is visible only to the call that created it: each
\* table a call's statements can name was created by that call's own
\* transaction and holds only rows that call staged, and the rows a query
\* fetched were staged by the call that ran it; the table is gone once the
\* call's transaction has ended, by return or by error: a connection that no
\* open transaction holds has no temporary table.
C7_StagingScoped ==
    /\ \A c \in InTransaction, t \in TempTables :
          LET seen == TableSeen(temp, sess[c].conn, t)
          IN  seen.exists =>
                 /\ seen.tx = c
                 /\ \A r \in seen.rows : r.staged_by = c
    /\ \A c \in Calls : \A r \in sess[c].rows : r.staged_by = c
    /\ \A c \in Calls :
          sess[c].pc \in {"inserted", "indexed", "queried"} =>
              TableSeen(temp, sess[c].conn, TableOf(sess[c].fn)).rows
                  = InsertValues(input_gdf, c)
    /\ \A conn \in Conns :
          (\A c \in Calls : sess[c].conn # conn) => TablesOf(conn) = {}
    /\ \A c \in Calls : sess[c].pc \in {"idle", "returned", "raised"} =>
          /\ sess[c].conn = 0
          /\ \A conn \in Conns, t \in TempTables : temp[conn][t].tx # c

\* two calls are inside their transactions at once, each with rows staged
\* in a table of the same name, and one of them has fetched its result
C7_Witness ==
    \E c, d \in Calls :
        /\ c # d
        /\ sess[c].pc = "queried" /\ sess[c].rows # {}
        /\ sess[d].pc \in {"inserted", "indexed"}
        /\ TableOf(sess[c].fn) = TableOf(sess[d].fn)

----------------------------------------------------------------------------
(* Reference versions in the assessment runs *)

\* _assign_spatial_features has run in the current nutrient run
AssignmentAttempted == run.kind = "nutrient" /\ run.pc \in {"assigned", "failed"}

\* C8: the nutrient pipeline assigns its three reference attributes
\* (facility id, authority name, sub-catchment name) in one shared remote
\* call that stages the input geometries once.
C8_OneSharedCall ==
    AssignmentAttempted =>
        /\ run.raised = NULL
        /\ run.assigned = AssignedFields
        /\ run.stagings = 1

\* C9: every read of reference-layer features during a run returns only
\* features whose version is the largest version stored for that layer type
\* when the read is made.
C9_LatestVersionOnly ==
    \A f \in run.reads : f.version = f.latest

\* what a query for the current version of cache_key would return now
CurrentVersion(cache_key) ==
    FromResult(MaxVersionQuery(StoredVersions(spatial_layer, coefficient_layer, cache_key)))

\* C10: within one nutrient run the current version of each layer type is
\* resolved from the store at most once, and every use in the run gets the
\* value cached by that one query; the cache of a run holds only what the
\* run itself resolved, so no value cached by another run is used.
C10_ResolvedOncePerRun ==
    /\ \A k \in CacheKeys : run.queries[k] <= 1
    /\ \A k \in CacheKeys : (k \in DOMAIN run._version_cache) <=> (run.queries[k] = 1)
    /\ \A k \in CacheKeys : Cardinality({r \in run.returned : r[1] = k}) <= 1
    /\ \A r \in run.returned :
          /\ r[1] \in DOMAIN run._version_cache
          /\ run._version_cache[r[1]] = r[2]

\* a resolve call of a nutrient run was answered from the cache with a
\* version that is no longer the one the store would return
C10_Witness ==
    /\ run.kind = "nutrient"
    /\ run.hit
    /\ DOMAIN run._version_cache = {COEFFICIENT_KEY}
    /\ run.queries[COEFFICIENT_KEY] = 1
    /\ run._version_cache[COEFFICIENT_KEY] # CurrentVersion(COEFFICIENT_KEY)

----------------------------------------------------------------------------
(* Properties of the habitat/pond assessment *)

\* the extent and the boundary of the running job
JobExtent == CombinedExtent(input_gdf)
JobBoundary == UnaryUnion({input_gdf[i].geometry : i \in 1..Len(input_gdf)})

\* a habitat/pond run has returned its tables
PondsDone == run.kind = "gcn" /\ run.pc = "done"

\* the ponds of the run, each with its region
RegionPonds == run.ponds_in_rlb \cup run.ponds_in_buffer

\* the classifications of the risk zones that intersect a pond
ZoneNamesAt(p) ==
    {z.RZ : z \in {y \in run.risk_zones : Intersects(p.geometry, y.geometry)}}

\* the rows of the per-pond table that belong to a pond
PondZoneRows(p) == {r \in run.pond_zones : r.Pond_ID = PondId(p)}

\* C11: in the pond-frequency calculation a pond's MaxZone is Red if any
\* zone intersecting the pond is Red, otherwise Amber if any is Amber,
\* otherwise Green if any is Green, otherwise the sole remaining zone
C11_MaxZonePriority ==
    PondsDone =>
        \A p \in RegionPonds : \A r \in PondZoneRows(p) :
            LET Z == ZoneNamesAt(p)
            IN  /\ "Red" \in Z => r.MaxZone = "Red"
                /\ ("Red" \notin Z /\ "Amber" \in Z) => r.MaxZone = "Amber"
                /\ ("Red" \notin Z /\ "Amber" \notin Z /\ "Green" \in Z) => r.MaxZone = "Green"
                /\ (Z \cap {"Red", "Amber", "Green"} = {} /\ Cardinality(Z) = 1)
                      => r.MaxZone \in Z

\* a run in which a pond under a Red and an Amber zone got Red, and a pond
\* under an Amber and a Green zone got Amber
C11_Witness ==
    /\ PondsDone
    /\ \E p \in RegionPonds : /\ ZoneNamesAt(p) = {"Red", "Amber"}
                             /\ \E r \in PondZoneRows(p) : r.MaxZone = "Red"
    /\ \E p \in RegionPonds : /\ {"Amber", "Green"} \subseteq ZoneNamesAt(p)
                             /\ "Red" \notin ZoneNamesAt(p)
                             /\ \E r \in PondZoneRows(p) : r.MaxZone = "Amber"

\* C12: a pond whose set of intersecting risk zones is empty is given
\* MaxZone "Unknown"
C12_UnknownWithoutZone ==
    PondsDone =>
        \A p \in RegionPonds :
            ZoneNamesAt(p) = {} =>
                \E r \in PondZoneRows(p) : r.MaxZone = "Unknown"

\* the ponds the job's source of ponds holds within the extent
SourcePonds ==
    IF run.metadata.survey_ponds_path.path # ""
    THEN ClipPoints(SurveyPonds(run.metadata.survey_ponds_path), JobExtent)
    ELSE NationalPonds(spatial_layer, JobExtent)

\* the inputs of the run are well-formed: every risk zone of the extent is
\* classified and a survey file has its PANS column
WellFormedInputs ==
    /\ \A z \in RiskZonesClipped(spatial_layer, JobExtent) : z.RZ # NULL
    /\ run.metadata.survey_ponds_path.path # ""
          => "PANS" \in run.metadata.survey_ponds_path.columns

\* C13: a habitat/pond run whose boundary and buffer overlap no risk zone
\* or no pond completes without error and returns zero-row habitat-impact
\* and pond-frequency tables
C13_ZeroOverlapNotAnError ==
    (/\ run.kind = "gcn"
     /\ run.pc \in {"done", "failed"}
     /\ WellFormedInputs
     /\ \/ RiskZonesClipped(spatial_layer, JobExtent) = {}
        \/ SourcePonds = {})
        => /\ run.pc = "done"
           /\ run.tables.habitat_impact = <<>>
           /\ run.tables.pond_frequency = {}

\* C14: a habitat/pond run fails with an error, returning no tables, when
\* the risk zones lack the RZ classification or when supplied survey ponds
\* lack the PANS column: a run gets past the risk zones only if one of them
\* is classified, past the ponds only if a survey file has PANS, and a
\* failed run has raised and holds no table
C14_FatalWhenAttributeMissing ==
    run.kind = "gcn" =>
        /\ run.pc \in {"risk_zones", "ponds", "areas", "done"}
              => \E z \in RiskZonesClipped(spatial_layer, JobExtent) : z.RZ # NULL
        /\ (/\ run.pc \in {"ponds", "areas", "done"}
            /\ run.metadata.survey_ponds_path.path # "")
              => "PANS" \in run.metadata.survey_ponds_path.columns
        /\ run.pc = "failed" => /\ run.raised # NULL
                                /\ DOMAIN run.tables = {}

\* a run that failed with ValueError on risk zones none of which is classified
C14_Witness ==
    /\ run.kind = "gcn"
    /\ run.pc = "failed"
    /\ run.raised = "ValueError"
    /\ DOMAIN run.tables = {}
    /\ RiskZonesClipped(spatial_layer, JobExtent) # {}
    /\ \A z \in RiskZonesClipped(spatial_layer, JobExtent) : z.RZ = NULL

\* the MaxZone the priority rule gives a set of classifications
PriorityZone(Z) ==
    IF "Red" \in Z THEN "Red"
    ELSE IF "Amber" \in Z THEN "Amber"
    ELSE IF "Green" \in Z THEN "Green"
    ELSE IF Z # {} THEN CHOOSE z \in Z : TRUE
    ELSE "Unknown"

\* the combination a pond falls under
PondCombination(p) ==
    [PANS |-> p.PANS, Area |-> p.Area, MaxZone |-> PriorityZone(ZoneNamesAt(p)),
     TmpImp |-> p.TmpImp]

\* C15: the pond-frequency table has one row per distinct combination of
\* presence status, region, MaxZone and temporary-impact flag, each row's
\* count is the number of ponds with that combination, and every pond is
\* counted exactly once
C15_EveryPondCountedOnce ==
    PondsDone =>
        LET keyOf(row) == [PANS |-> row.PANS, Area |-> row.Area, MaxZone |-> row.MaxZone,
                           TmpImp |-> row.TmpImp]
        IN  /\ \A row \in run.tables.pond_frequency :
                  /\ row.FREQUENCY =
                        Cardinality({p \in RegionPonds : PondCombination(p) = keyOf(row)})
                  /\ \A other \in run.tables.pond_frequency :
                        keyOf(other) = keyOf(row) => other = row
            /\ \A p \in RegionPonds :
                  \E row \in run.tables.pond_frequency : keyOf(row) = PondCombination(p)

\* C16: every pond within the extent is placed in exactly one of the two
\* regions: "RLB" if it intersects the primary boundary, otherwise "Buffer";
\* a pond outside the extent is in neither
C16_OneRegionPerPond ==
    (run.kind = "gcn" /\ run.pc \in {"areas", "done"}) =>
        \A p \in run.ponds :
            LET placed == {r \in RegionPonds : r.fid = p.fid}
            IN  IF Intersects(p.geometry, JobExtent)
                THEN /\ Cardinality(placed) = 1
                     /\ \A r \in placed :
                           r.Area = IF Intersects(p.geometry, JobBoundary)
                                    THEN "RLB" ELSE "Buffer"
                ELSE placed = {}

\* a job of two developments whose ponds were split: one on the boundary,
\* one in the buffer, one outside the extent left out
C16_Witness ==
    /\ run.kind = "gcn"
    /\ run.pc = "areas"
    /\ Len(input_gdf) = 2
    /\ run.ponds_in_rlb # {}
    /\ run.ponds_in_buffer # {}
    /\ \E p \in run.ponds : ~ Intersects(p.geometry, JobExtent)

----------------------------------------------------------------------------
(* Properties of the nutrient stages *)

\* the call that has been made on the instance
Called(fn) == call.fn = fn

\* a development is outside every catchment and has no facility
OutsideAllCatchments(r) ==
    r.area_in_nn_catchment_ha = NaN /\ r.wwtw_name = NULL

\* a development is outside the NN catchment on the fallback facility
FallbackOutsideCatchment(r) ==
    r.area_in_nn_catchment_ha = NaN /\ r.wwtw_name = PACKAGE_TREATMENT_PLANT

\* C17: the scope filter drops a development that has neither catchment-area
\* overlap nor an assigned facility name, drops one that uses the sentinel
\* fallback facility while outside the catchment, and retains every other
\* development: the result is the input without those rows, in the input's
\* order and with the rows unchanged.
C17_ScopeFilter ==
    Called("_filter_out_of_scope") =>
        LET rlb_gdf == call.args.rlb_gdf
            kept == {i \in 1..Len(rlb_gdf) :
                        ~ OutsideAllCatchments(rlb_gdf[i])
                        /\ ~ FallbackOutsideCatchment(rlb_gdf[i])}
        IN  /\ Len(call.result) = Cardinality(kept)
            /\ \A i \in kept : \E k \in 1..Len(call.result) : call.result[k] = rlb_gdf[i]
            /\ \A k \in 1..Len(call.result) : call.result[k].rlb_id \in kept
            /\ \A k \in 1..(Len(call.result) - 1) :
                  call.result[k].rlb_id < call.result[k + 1].rlb_id

\* the filter dropped a development on the fallback facility and kept one
\* that is outside the catchment on a facility of its own
C17_Witness ==
    /\ Called("_filter_out_of_scope")
    /\ Len(call.args.rlb_gdf) = 2
    /\ FallbackOutsideCatchment(call.args.rlb_gdf[1])
    /\ call.args.rlb_gdf[2].area_in_nn_catchment_ha = NaN
    /\ call.args.rlb_gdf[2].wwtw_name = "Anytown WwTW"
    /\ call.result = <<call.args.rlb_gdf[2]>>

\* no feature of a layer type intersects any development of the run
NoReferenceFeature(layer_type) ==
    \A t \in spatial_layer :
        t.layer_type = layer_type =>
            \A i \in 1..Len(input_gdf) : ~ Intersects(t.geometry, input_gdf[i].geometry)

\* C18: a development for which no reference feature is found does not fail
\* the run: the assignment completes with the facility id, the authority
\* name and the sub-catchment name filled from their fallbacks.
C18_FallbackNotFatal ==
    (AssignmentAttempted /\ \A t \in AssignmentLayerTypes : NoReferenceFeature(t)) =>
        /\ run.raised = NULL
        /\ run.pc = "assigned"
        /\ run.assigned = AssignedFields

\* the legacy names that are renamed to a required attribute
LegacyNamesOf(col) == {k \in LegacyColumns : input_column_map(k) = col}

\* the required attributes an input lacks under both of their names
LackingAttributes(columns) ==
    {col \in {RequiredColumnsAll[k] : k \in 1..Len(RequiredColumnsAll)} :
        col \notin columns /\ LegacyNamesOf(col) \cap columns = {}}

\* C19: a nutrient run whose input lacks a required attribute aborts with a
\* ValueError whose message names exactly the missing attributes, and returns
\* no table; an input that has them all is not rejected.
C19_MissingAttributesNamed ==
    Called("_validate_and_prepare_input") =>
        LET lacking == LackingAttributes(call.args.columns)
            named == {call.result.message[k] : k \in 1..Len(call.result.message)}
        IN  /\ lacking # {} =>
                  /\ call.result.raised = "ValueError"
                  /\ named = lacking
                  /\ call.result.rows = <<>>
            /\ lacking = {} => call.result.raised = NULL

\* an input with a legacy name for one attribute and two attributes missing
\* was rejected
C19_Witness ==
    /\ Called("_validate_and_prepare_input")
    /\ "Dwellings" \in call.args.columns
    /\ "dwellings" \notin call.args.columns
    /\ call.result.raised = "ValueError"
    /\ call.result.message = <<"source", "geometry">>

\* the exact value of uplift - |uplift| * capture * removal in units of 10^-7,
\* the fractions being the percentages over 100
ExactMitigation(uplift, suds_config) ==
    uplift * FACTOR_SCALE
        - Abs(uplift) * suds_config.flow_capture_percent * suds_config.removal_rate_percent

\* a value in hundredths is the one nearest to an exact value in units of
\* 10^-7, the even one of the two when the exact value is midway
NearestHundredth(h, exact) ==
    LET d == Abs(h * HUNDREDTHS_IN_PRODUCT - exact)
    IN  /\ 2 * d <= HUNDREDTHS_IN_PRODUCT
        /\ 2 * d = HUNDREDTHS_IN_PRODUCT => h % 2 = 0

\* C20 as stated: mitigation returns uplift minus |uplift| times the
\* reduction factor exactly.
C20_ExactFormula ==
    Called("apply_suds_mitigation") =>
        /\ call.result[1] * HUNDREDTHS_IN_PRODUCT =
              ExactMitigation(call.args.nitrogen_uplift, call.args.suds_config)
        /\ call.result[2] * HUNDREDTHS_IN_PRODUCT =
              ExactMitigation(call.args.phosphorus_uplift, call.args.suds_config)

\* C20: for every uplift value, positive or negative, mitigation returns
\* uplift minus |uplift| times reduction_factor rounded to 2 decimals (a tie
\* to the even hundredth), where reduction_factor is the capture fraction
\* times the removal fraction.
C20_RoundedFormula ==
    Called("apply_suds_mitigation") =>
        /\ NearestHundredth(call.result[1],
              ExactMitigation(call.args.nitrogen_uplift, call.args.suds_config))
        /\ NearestHundredth(call.result[2],
              ExactMitigation(call.args.phosphorus_uplift, call.args.suds_config))

\* a negative nitrogen uplift was made more negative, and a phosphorus uplift
\* whose mitigated value is midway between two hundredths was rounded
C20_Witness ==
    /\ Called("apply_suds_mitigation")
    /\ call.args.suds_config.flow_capture_percent = 100
    /\ call.args.suds_config.removal_rate_percent = 25
    /\ call.args.nitrogen_uplift = -30000
    /\ call.result[1] = -3750
    /\ call.args.phosphorus_uplift = 22500
    /\ call.result[2] = 1688

\* the mitigated values differ from the uplift wherever there is something
\* to reduce; uplifts are in thousandths, mitigated values in hundredths
Mitigated(uplift, post, suds_config) ==
    (uplift # 0 /\ total_reduction_factor(suds_config) > 0) => post * 10 < uplift

\* C21: mitigation is applied to every development whatever its dwelling
\* count: the call returns what it returns for the same uplifts and any
\* other dwelling count, below the configured threshold or not, and the
\* uplift is reduced in every case.
C21_DwellingCountIgnored ==
    Called("apply_suds_mitigation") =>
        /\ \A dwelling_count \in DwellingCounts :
              apply_suds_mitigation(call.args.nitrogen_uplift, call.args.phosphorus_uplift,
                                    dwelling_count, call.args.suds_config) = call.result
        /\ Mitigated(call.args.nitrogen_uplift, call.result[1], call.args.suds_config)
        /\ Mitigated(call.args.phosphorus_uplift, call.result[2], call.args.suds_config)

\* a development of one dwelling, below the threshold of 50, had its uplift
\* of 22.5 mitigated to 16.88
C21_Witness ==
    /\ Called("apply_suds_mitigation")
    /\ call.args.dwelling_count = 1
    /\ call.args.dwelling_count < call.args.suds_config.threshold_dwellings
    /\ call.args.suds_config.flow_capture_percent = 100
    /\ call.args.suds_config.removal_rate_percent = 25
    /\ call.args.nitrogen_uplift = 22500
    /\ call.result[1] = 1688

\* a value in hundredths is the one nearest to an exact value given in
\* units of 1 / (100 * unit), the even one of the two when it is midway
NearestHundredthOf(h, exact, unit) ==
    LET d == Abs(h * unit - exact)
    IN  /\ 2 * d <= unit
        /\ 2 * d = unit => h % 2 = 0

\* base + |base| * buffer fraction in units of 10^-6, for a land-use impact
\* in hundredths and a wastewater load in ten-thousandths, a missing value
\* counting as zero
ExactTotal(land_use, wastewater, percent) ==
    LET lu == IF land_use = NaN THEN 0 ELSE land_use[1] * 100
        ww == IF wastewater = NaN THEN 0 ELSE wastewater[1]
        base == lu + ww
    IN  IF base >= 0 THEN base * (100 + percent) ELSE base * (100 - percent)

\* C22: for every development the reported total equals base + |base| times
\* the buffer fraction, rounded to 2 decimals, where base is the
\* post-mitigation land-use impact plus the permanent wastewater load, both
\* as they are before the reported columns are rounded.
C22_BufferedTotal ==
    Called("_calculate_totals") =>
        /\ Len(call.result) = Len(call.args.rlb_gdf)
        /\ \A k \in 1..Len(call.result) :
              LET r == call.args.rlb_gdf[k]
                  percent == call.args.precautionary_buffer_percent
              IN  /\ call.result[k].rlb_id = r.rlb_id
                  /\ Len(call.result[k].n_total) = 1
                  /\ Len(call.result[k].p_total) = 1
                  /\ NearestHundredthOf(call.result[k].n_total[1],
                        ExactTotal(r.n_lu_post_suds, r.n_wwtw_perm, percent), 10000)
                  /\ NearestHundredthOf(call.result[k].p_total[1],
                        ExactTotal(r.p_lu_post_suds, r.p_wwtw_perm, percent), 10000)

\* a development with a negative base (-37.5 + 0.125) got -29.9 at 20%, and
\* one with the load 86.7834, reported as 86.78, got (16.88 + 86.7834) * 1.2
\* = 124.40, which the reported load would not give
C22_Witness ==
    /\ Called("_calculate_totals")
    /\ call.args.precautionary_buffer_percent = 20
    /\ Len(call.args.rlb_gdf) = 2
    /\ call.args.rlb_gdf[1].n_lu_post_suds = <<-3750>>
    /\ call.args.rlb_gdf[1].n_wwtw_perm = <<1250>>
    /\ call.result[1].n_total = <<-2990>>
    /\ call.args.rlb_gdf[2].n_lu_post_suds = <<1688>>
    /\ call.args.rlb_gdf[2].n_wwtw_perm = <<867834>>
    /\ call.result[2].n_wwtw_perm = <<8678>>
    /\ call.result[2].n_total = <<12440>>

\* the rate the lookup data holds for a catchment: that of its first row for
\* the catchment, NaN when it has none
RateOf(rates_data, nn_catchment, col) ==
    LET listed == {j \in 1..Len(rates_data) : rates_data[j].nn_catchment = nn_catchment}
    IN  IF listed = {} THEN NaN ELSE rates_data[MinOf(listed)][col]

\* the value of a rate column a development must end with: its own rate, or
\* the mean over the developments of its facility that have one
RateFilled(rlb_gdf, rates_data, k, col, value) ==
    LET own == RateOf(rates_data, rlb_gdf[k].nn_catchment, col)
        peers == SelectSeq(rlb_gdf, LAMBDA r :
                     /\ r.majority_wwtw_id = rlb_gdf[k].majority_wwtw_id
                     /\ RateOf(rates_data, r.nn_catchment, col) # NaN)
        rates == [j \in 1..Len(peers) |-> RateOf(rates_data, peers[j].nn_catchment, col)]
    IN  IF own # NaN THEN value = own
        ELSE IF peers = <<>> THEN value = NaN
        ELSE /\ value # NaN
             /\ RatMul(value, <<Len(peers), 1>>) = RatSum(rates)

\* C23: a development with no usage rate for its catchment gets an occupancy
\* and a per-person usage equal to the mean of those rates over the
\* developments of the same run that share its facility id and have a rate
\* (it stays without one when none of them has); a development that has a
\* rate keeps it.
C23_MissingRatesFilled ==
    Called("_calculate_wastewater_impacts") =>
        /\ Len(call.result) = Len(call.args.rlb_gdf)
        /\ \A k \in 1..Len(call.result) :
              /\ call.result[k].rlb_id = call.args.rlb_gdf[k].rlb_id
              /\ RateFilled(call.args.rlb_gdf, call.args.rates_data, k, "occupancy_rate",
                            call.result[k].occupancy_rate)
              /\ RateFilled(call.args.rlb_gdf, call.args.rates_data, k,
                            "water_usage_L_per_person_day",
                            call.result[k].water_usage_L_per_person_day)

\* a development outside every listed catchment shares its facility with two
\* developments whose rates are 2.4 and 2 persons, 150 and 110 litres: it
\* got 2.2 persons and 130 litres
C23_Witness ==
    /\ Called("_calculate_wastewater_impacts")
    /\ Len(call.args.rlb_gdf) = 3
    /\ \A k \in 1..3 : call.args.rlb_gdf[k].majority_wwtw_id = 123
    /\ call.args.rlb_gdf[1].nn_catchment = "Solent"
    /\ call.args.rlb_gdf[2].nn_catchment = "Avon"
    /\ call.args.rlb_gdf[3].nn_catchment = NULL
    /\ call.result[1].occupancy_rate = <<12, 5>>
    /\ call.result[2].occupancy_rate = <<2, 1>>
    /\ call.result[3].occupancy_rate = <<11, 5>>
    /\ call.result[3].water_usage_L_per_person_day = <<130, 1>>

\* run() was called and did not return a dict whose values are all tables
RunFailed(behaviour) ==
    \/ behaviour.raises # NULL
    \/ behaviour.value.type # "dict"
    \/ \E k \in 1..Len(behaviour.value.items) :
          behaviour.value.items[k][2] \notin {"DataFrame", "GeoDataFrame"}

\* C25: run_assessment raises KeyError for an unregistered assessment type,
\* and raises ValueError whenever the assessment's run raises or returns
\* anything other than a dict whose values are all tables (or its constructor
\* raises); otherwise it returns the dict.
C25_RunnerErrors ==
    Called("run_assessment") =>
        LET registered == call.args.assessment_type \in {"gcn", "nutrient"}
            behaviour == call.args.behaviour
        IN  /\ ~ registered => call.result.raised = "KeyError"
            /\ (registered /\ behaviour.init = "raises") => call.result.raised = "ValueError"
            /\ (registered /\ behaviour.init = "ok" /\ RunFailed(behaviour)) =>
                  call.result.raised = "ValueError"
            /\ (registered /\ behaviour.init = "ok" /\ ~ RunFailed(behaviour)) =>
                  /\ call.result.raised = NULL
                  /\ call.result.dataframes = behaviour.value.items

\* run() of a registered assessment raised KeyError and the caller got
\* ValueError
C25_Witness ==
    /\ Called("run_assessment")
    /\ call.args.assessment_type = "nutrient"
    /\ call.args.behaviour.init = "ok"
    /\ call.args.behaviour.raises = "KeyError"
    /\ call.result.raised = "ValueError"
    /\ call.result.message = "execution failed"

----------------------------------------------------------------------------
(* Properties of the queue consumer *)

\* C24: the consumer deletes a job message from the queue only after that
\* job has been processed successfully.
C24_DeletedOnlyAfterSuccess ==
    call.fn = "SqsConsumer.run" =>
        \A m \in Messages :
            call.queue[m] = "deleted" => call.deleted_as[m] = "completed"

\* C28: every attribute the nutrient pipeline requires of its input is
\* supplied by the orchestrator's job-data injection, so a nutrient job whose
\* geometry file is valid passes the pipeline's input validation.
C28_InjectionSatisfiesValidation ==
    call.fn = "SqsConsumer.run" =>
        \A m \in Messages :
            (JobOf(m).valid /\ JobOf(m).assessment_type = "nutrient") =>
                call.validated[m] \in {"none", "passed"}

----------------------------------------------------------------------------
(* Properties of the chunk tasks *)

\* C29: an error raised by a chunk task's own computation reaches the caller
\* of majority_overlap or spatial_difference_with_precision: it does not
\* trigger the sequential fallback, and no partial result is returned.
C29_TaskErrorReachesCaller ==
    (/\ call.fn \in {"majority_overlap", "spatial_difference_with_precision"}
     /\ call.task \notin {NULL, "ok"}) =>
        /\ call.path = "raised"
        /\ call.raised = call.task
        /\ call.rows = <<>>

----------------------------------------------------------------------------
(* Properties of the spatial partition *)

\* how many times the row appears in the chunks
TimesInChunks(chunks, row) ==
    Cardinality({<<c, j>> \in (1..Len(chunks)) \X (1..Len(row.table)) :
                    j <= Len(chunks[c]) /\ chunks[c][j] = row.table[row.at]})

\* C26: spatial partitioning places every input row in exactly one chunk: no
\* row is duplicated across chunks and none is lost.
C26_PartitionExact ==
    /\ (call.fn = "majority_overlap" /\ call.path \in {"parallel", "fallback", "raised"}) =>
          \A n_chunks \in 2..MaxWorkersArg, k \in 1..Len(input_gdf) :
              TimesInChunks(_partition_by_bounds(input_gdf, n_chunks),
                            [table |-> input_gdf, at |-> k]) = 1
    /\ (/\ call.fn = "spatial_difference_with_precision"
        /\ call.path \in {"parallel", "fallback", "raised"}) =>
          LET left_precise == apply_precision(input_gdf, call.grid_size)
          IN  \A n_chunks \in 2..MaxWorkersArg, k \in 1..Len(left_precise) :
                  TimesInChunks(overlay_partition_by_bounds(left_precise, n_chunks),
                                [table |-> left_precise, at |-> k]) = 1

----------------------------------------------------------------------------
(* Properties of the rows of the nutrient table *)

\* the sequence ids of the table _assign_spatial_features returns: the left
\* merges on rlb_id keep the rows of the input; a stage that raised returns
\* no table
IdsAfterAssignment(r, n) ==
    IF r.pc = "assigned" THEN [i \in 1..n |-> i] ELSE <<>>

====
